---------------------------- MODULE Spec2Model ----------------------------
(***************************************************************************)
(* A model of the APU display server (benj-edwards/ascii-processing-unit): *)
(* the input parser, the window manager and compositor, the window-chrome  *)
(* interaction state machine, the command router and the connection and    *)
(* terminal-task lifecycles.  Bytes and characters are integers (a char is *)
(* its Unicode code point), colours are 0..15, attribute sets are sets of  *)
(* attribute names.                                                        *)
(***************************************************************************)
EXTENDS Integers, Sequences, FiniteSets, TLC

VARIABLES
    buffer,      \* InputParser.buffer
    received,    \* every byte handed to InputParser.parse so far, in order
    events,      \* the events returned by the parse calls so far, concatenated
    calls,       \* number of parse calls made
    sessions,    \* Server.sessions: session id -> ClientSession
    last,        \* the last handler run: its input and what it emitted
    now,         \* the wall clock, in milliseconds
    steps,       \* number of handler runs so far
    shutdown_channels,  \* Server.shutdown_channels: the session ids holding a sender
    event_tx,    \* the responses sent on the broadcast channel so far, in order
    clients,     \* peer address -> position of its handle_client_connection
    games,       \* game -> position of its connection, its receiver, its socket
    tasks        \* the terminal connection tasks spawned so far, in order

\* clients[a] holds, besides pc: signalled, whether the shutdown receiver has
\* been fired; writer, the state of the output writer task; output_rx, the
\* outputs queued in the session's output channel; socket, the outputs
\* written to the client socket.  An output is a sequence of bytes.

parserVars == <<buffer, received, events, calls>>
sessionVars == <<sessions, last, now, steps>>
serverVars == <<shutdown_channels, event_tx, clients, games, tasks>>

vars == <<parserVars, sessionVars, serverVars>>

\* the peer addresses of the client connections, and the games
Addr1 == "10.0.0.1:5001"
Addr2 == "10.0.0.2:5002"
Addresses == {Addr1, Addr2}
Games == {"g1"}

\* handle_client_connection: "session_" followed by the address with ':'
\* and '.' replaced by '_'
session_id(addr) ==
    CASE addr = Addr1 -> "session_10_0_0_1_5001"
      [] addr = Addr2 -> "session_10_0_0_2_5002"
S1 == session_id(Addr1)
S2 == session_id(Addr2)

\* every client whose session is in the table is in its read loop, no game
\* is connected and nothing has been broadcast
ChannelsSettled ==
    /\ shutdown_channels = DOMAIN sessions
    /\ event_tx = <<>>
    /\ clients = [a \in Addresses |->
                    [pc |-> IF session_id(a) \in DOMAIN sessions THEN "loop" ELSE "none",
                     signalled |-> FALSE,
                     writer |-> IF session_id(a) \in DOMAIN sessions THEN "running"
                                ELSE "none",
                     output_rx |-> <<>>, socket |-> <<>>]]
    /\ games = [g \in Games |-> [pc |-> "none", rx |-> 0, written |-> {}]]

\* the same, and no terminal task exists
ConnectionsSettled == ChannelsSettled /\ tasks = <<>>

\* a parser that has been handed nothing
ParserIdle ==
    /\ buffer = <<>>
    /\ received = <<>>
    /\ events = <<>>
    /\ calls = 0

(***************************************************************************)
(* Helpers                                                                 *)
(***************************************************************************)
Max(a, b) == IF a >= b THEN a ELSE b
Min(a, b) == IF a <= b THEN a ELSE b
\* usize::saturating_sub
SatSub(a, b) == IF a >= b THEN a - b ELSE 0
\* the decimal digits format!("{}", n) writes for an unsigned n
RECURSIVE Digits(_)
Digits(n) == IF n < 10 THEN <<48 + n>> ELSE Digits(n \div 10) \o <<48 + (n % 10)>>
\* (v & (1 << bit)) != 0
BitSet(v, bit) == (v \div bit) % 2 = 1
\* Vec::drain(0..n): what is left of the vector
Drain(s, n) == SubSeq(s, n + 1, Len(s))

(***************************************************************************)
(* src/input.rs : InputParser                                              *)
(***************************************************************************)
ESC == 27

KeyEvent(k) == [type |-> "key", key |-> k]
CharEvent(c) == [type |-> "char", char |-> c]
MouseEv(x, y, button, event, modifiers) ==
    [type |-> "mouse", x |-> x, y |-> y, button |-> button, event |-> event,
     modifiers |-> modifiers]

\* ParseResult::Event / Incomplete / Invalid(skip), with the buffer as the
\* parsing function leaves it (the functions drain it themselves).
REvent(e, buf) == [kind |-> "event", event |-> e, skip |-> 0, buffer |-> buf]
RIncomplete(buf) == [kind |-> "incomplete", event |-> 0, skip |-> 0, buffer |-> buf]
RInvalid(n, buf) == [kind |-> "invalid", event |-> 0, skip |-> n, buffer |-> buf]
\* An Option<InputEvent> is <<>> (None) or <<e>> (Some(e)).
SomeKey(k) == <<KeyEvent(k)>>
\* event.map(ParseResult::Event).unwrap_or(ParseResult::Invalid(n))
ROption(opt, n, buf) == IF opt = <<>> THEN RInvalid(n, buf) ELSE REvent(opt[1], buf)

IsDigit(b) == b >= 48 /\ b <= 57
\* u8::is_ascii_alphabetic
IsAsciiAlphabetic(b) == (b >= 65 /\ b <= 90) \/ (b >= 97 /\ b <= 122)
\* the bytes that end a CSI sequence: an ASCII letter or '~'
CsiFinal == {b \in 0..255 : IsAsciiAlphabetic(b) \/ b = 126}

\* the index (1-based) of the first element of s at or after `from` that is
\* in the set B, or 0: Iterator::position
RECURSIVE PositionFrom(_, _, _)
PositionFrom(s, from, B) ==
    IF from > Len(s) THEN 0
    ELSE IF s[from] \in B THEN from
    ELSE PositionFrom(s, from + 1, B)

\* The value of a run of ASCII digits (a decimal number), unbounded.
RECURSIVE DecValue(_)
DecValue(s) ==
    IF s = <<>> THEN 0 ELSE DecValue(SubSeq(s, 1, Len(s) - 1)) * 10 + (s[Len(s)] - 48)

\* str::parse::<uN>() of the field, .unwrap_or(dflt): a non-empty run of
\* digits, after an optional '+', whose value fits the type; anything else
\* is an error.
ParseUnsigned(s, maxv, dflt) ==
    LET d == IF s # <<>> /\ s[1] = 43 THEN Tail(s) ELSE s IN
    IF d # <<>> /\ (\A i \in 1..Len(d) : IsDigit(d[i])) /\ DecValue(d) <= maxv
    THEN DecValue(d) ELSE dflt

\* str::split(';') on the bytes of the parameter string
RECURSIVE SplitSemi(_)
SplitSemi(s) ==
    LET p == PositionFrom(s, 1, {59}) IN
    IF p = 0 THEN <<s>>
    ELSE <<SubSeq(s, 1, p - 1)>> \o SplitSemi(SubSeq(s, p + 1, Len(s)))

\* the leading digits of the parameters: take_while(is_ascii_digit), folded
\* into a u8 (wrapping, as a release build computes it)
RECURSIVE LeadingNum(_, _)
LeadingNum(s, acc) ==
    IF s = <<>> \/ ~IsDigit(s[1]) THEN acc
    ELSE LeadingNum(Tail(s), (acc * 10 + (s[1] - 48)) % 256)

NoMods == [shift |-> FALSE, ctrl |-> FALSE, alt |-> FALSE]

decode_x10_button(cb) ==
    LET b == SatSub(cb, 32)
        button_bits == b % 4
        motion == BitSet(b, 32)
        button0 == CASE button_bits = 0 -> "left"
                     [] button_bits = 1 -> "middle"
                     [] button_bits = 2 -> "right"
                     [] OTHER -> "none"
        button == IF BitSet(b, 64)
                  THEN CASE button_bits = 0 -> "wheel_up"
                         [] button_bits = 1 -> "wheel_down"
                         [] OTHER -> button0
                  ELSE button0
        event == IF button_bits = 3 THEN "release"
                 ELSE IF motion THEN "drag" ELSE "press"
    IN <<button, event>>

decode_x10_modifiers(cb) ==
    LET b == SatSub(cb, 32) IN
    [shift |-> BitSet(b, 4), alt |-> BitSet(b, 8), ctrl |-> BitSet(b, 16)]

\* the X10 decoding applied to an SGR button code: button bits 3 are a
\* release, and motion with them is no Move
decode_sgr_button_as_x10(pb) == decode_x10_button(pb + 32)

decode_sgr_button(pb) ==
    LET button_bits == pb % 4
        motion == BitSet(pb, 32)
        button == IF BitSet(pb, 64)
                  THEN CASE button_bits = 0 -> "wheel_up"
                         [] button_bits = 1 -> "wheel_down"
                         [] OTHER -> "none"
                  ELSE CASE button_bits = 0 -> "left"
                         [] button_bits = 1 -> "middle"
                         [] button_bits = 2 -> "right"
                         [] OTHER -> "none"
        event == IF motion /\ button # "none" THEN "drag"
                 ELSE IF motion THEN "move" ELSE "press"
    IN <<button, event>>

decode_sgr_modifiers(pb) ==
    [shift |-> BitSet(pb, 4), alt |-> BitSet(pb, 8), ctrl |-> BitSet(pb, 16)]

\* std::str::from_utf8 on exactly one encoded character of `len` bytes
\* (well-formed UTF-8, Unicode table 3-7): its code point, or -1.
Cont(b) == b >= 128 /\ b <= 191
Utf8Char(s, len) ==
    CASE len = 2 ->
           IF s[1] >= 194 /\ Cont(s[2])
           THEN (s[1] - 192) * 64 + (s[2] - 128) ELSE -1
      [] len = 3 ->
           IF /\ Cont(s[2]) /\ Cont(s[3])
              /\ (s[1] = 224 => s[2] >= 160)
              /\ (s[1] = 237 => s[2] <= 159)
           THEN (s[1] - 224) * 4096 + (s[2] - 128) * 64 + (s[3] - 128) ELSE -1
      [] OTHER ->
           IF /\ s[1] <= 244 /\ Cont(s[2]) /\ Cont(s[3]) /\ Cont(s[4])
              /\ (s[1] = 240 => s[2] >= 144)
              /\ (s[1] = 244 => s[2] <= 143)
           THEN (s[1] - 240) * 262144 + (s[2] - 128) * 4096
                + (s[3] - 128) * 64 + (s[4] - 128)
           ELSE -1

\* InputParser::decode_utf8: <<char, len>>, or <<-1, 0>> for None
decode_utf8(buf) ==
    IF buf = <<>> THEN <<-1, 0>>
    ELSE LET first == buf[1] IN
         IF first < 128 THEN <<first, 1>>
         ELSE LET len == IF first >= 192 /\ first <= 223 THEN 2
                         ELSE IF first >= 224 /\ first <= 239 THEN 3
                         ELSE IF first >= 240 /\ first <= 247 THEN 4
                         ELSE 0
              IN IF len = 0 THEN <<-1, 0>>
                 ELSE IF Len(buf) < len THEN <<-1, 0>>
                 ELSE LET c == Utf8Char(buf, len) IN
                      IF c = -1 THEN <<-1, 0>> ELSE <<c, len>>

decode_csi(params, final_byte) ==
    CASE final_byte = 65 -> SomeKey("up")
      [] final_byte = 66 -> SomeKey("down")
      [] final_byte = 67 -> SomeKey("right")
      [] final_byte = 68 -> SomeKey("left")
      [] final_byte = 72 -> SomeKey("home")
      [] final_byte = 70 -> SomeKey("end")
      [] final_byte = 126 ->
           LET num == LeadingNum(params, 0) IN
           CASE num = 1 -> SomeKey("home")
             [] num = 2 -> SomeKey("insert")
             [] num = 3 -> SomeKey("delete")
             [] num = 4 -> SomeKey("end")
             [] num = 5 -> SomeKey("page_up")
             [] num = 6 -> SomeKey("page_down")
             [] num = 15 -> SomeKey("f5")
             [] num = 17 -> SomeKey("f6")
             [] num = 18 -> SomeKey("f7")
             [] num = 19 -> SomeKey("f8")
             [] num = 20 -> SomeKey("f9")
             [] num = 21 -> SomeKey("f10")
             [] num = 23 -> SomeKey("f11")
             [] num = 24 -> SomeKey("f12")
             [] OTHER -> <<>>
      [] OTHER -> <<>>

parse_ss3(buf) ==
    IF Len(buf) < 3 THEN RIncomplete(buf)
    ELSE LET c == buf[3]
             event == CASE c = 80 -> SomeKey("f1")
                        [] c = 81 -> SomeKey("f2")
                        [] c = 82 -> SomeKey("f3")
                        [] c = 83 -> SomeKey("f4")
                        [] c = 65 -> SomeKey("up")
                        [] c = 66 -> SomeKey("down")
                        [] c = 67 -> SomeKey("right")
                        [] c = 68 -> SomeKey("left")
                        [] c = 72 -> SomeKey("home")
                        [] c = 70 -> SomeKey("end")
                        [] OTHER -> <<>>
         IN ROption(event, 0, Drain(buf, 3))

parse_x10_mouse(buf) ==
    IF Len(buf) < 6 THEN RIncomplete(buf)
    ELSE LET cb == buf[4]
             be == decode_x10_button(cb)
         IN REvent(MouseEv(SatSub(buf[5], 32), SatSub(buf[6], 32), be[1], be[2],
                           decode_x10_modifiers(cb)),
                   Drain(buf, 6))

parse_sgr_mouse(buf) ==
    LET end_idx == PositionFrom(buf, 4, {77, 109}) IN
    IF end_idx = 0 THEN RIncomplete(buf)
    ELSE LET is_release == buf[end_idx] = 109
             parts == SplitSemi(SubSeq(buf, 4, end_idx - 1))
         IN IF Len(parts) < 3 THEN RInvalid(0, Drain(buf, end_idx))
            ELSE LET pb == ParseUnsigned(parts[1], 255, 0)
                     x == SatSub(ParseUnsigned(parts[2], 65535, 1), 1)
                     y == SatSub(ParseUnsigned(parts[3], 65535, 1), 1)
                     be == decode_sgr_button(pb)
                     event == IF is_release /\ be[1] # "none" THEN "release" ELSE be[2]
                 IN REvent(MouseEv(x, y, be[1], event, decode_sgr_modifiers(pb)),
                           Drain(buf, end_idx))

parse_csi(buf) ==
    IF Len(buf) < 3 THEN RIncomplete(buf)
    ELSE IF buf[3] = 60 THEN parse_sgr_mouse(buf)
    ELSE IF buf[3] = 77 THEN parse_x10_mouse(buf)
    ELSE LET end_idx == PositionFrom(buf, 3, CsiFinal) IN
         IF end_idx = 0 THEN RIncomplete(buf)
         ELSE ROption(decode_csi(SubSeq(buf, 3, end_idx - 1), buf[end_idx]), 0,
                      Drain(buf, end_idx))

\* a parse_escape that does not wait: a lone ESC is the Escape key, and any
\* byte after ESC other than [ and O is an Alt+key character
parse_escape_no_wait(buf) ==
    IF Len(buf) < 2 THEN REvent(KeyEvent("escape"), Drain(buf, 1))
    ELSE CASE buf[2] = 91 -> parse_csi(buf)
           [] buf[2] = 79 -> parse_ss3(buf)
           [] OTHER -> REvent(CharEvent(buf[2]), Drain(buf, 2))

parse_escape(buf) ==
    IF Len(buf) < 2 THEN RIncomplete(buf)
    ELSE LET c == buf[2] IN
         CASE c = 91 -> parse_csi(buf)
           [] c = 79 -> parse_ss3(buf)
           [] c >= 32 /\ c # 91 /\ c # 79 -> REvent(CharEvent(c), Drain(buf, 2))
           [] OTHER -> RInvalid(1, buf)

try_parse_one(buf) ==
    IF buf = <<>> THEN RIncomplete(buf)
    ELSE LET first == buf[1] IN
         IF first = ESC THEN parse_escape(buf)
         ELSE IF first < 32 \/ first = 127
         THEN LET event == CASE first = 13 \/ first = 10 -> KeyEvent("enter")
                             [] first = 9 -> KeyEvent("tab")
                             [] first = 127 \/ first = 8 -> KeyEvent("backspace")
                             [] OTHER -> CharEvent(first)
              IN REvent(event, Drain(buf, 1))
         ELSE LET d == decode_utf8(buf) IN
              IF d[1] # -1 THEN REvent(CharEvent(d[1]), Drain(buf, d[2]))
              ELSE RInvalid(1, buf)

\* The loop of InputParser::parse on the extended buffer.
RECURSIVE parse_loop(_, _)
parse_loop(buf, evs) ==
    IF buf = <<>> THEN [buffer |-> buf, events |-> evs]
    ELSE LET r == try_parse_one(buf) IN
         CASE r.kind = "event" -> parse_loop(r.buffer, Append(evs, r.event))
           [] r.kind = "incomplete" -> [buffer |-> r.buffer, events |-> evs]
           [] OTHER -> parse_loop(Drain(r.buffer, r.skip), evs)

\* InputParser::parse(data) on a parser whose buffer is buf
parse(buf, data) == parse_loop(buf \o data, <<>>)

(***************************************************************************)
(* src/core/cell.rs, src/core/grid.rs : Cell and Grid                      *)
(***************************************************************************)
\* An Option<T> is <<>> (None) or <<v>> (Some(v)).
None == <<>>
Some(v) == <<v>>

White == 7
Black == 0
BrightWhite == 15

\* impl From<u8> for Color
Color_from(v) == IF v >= 0 /\ v <= 15 THEN v ELSE White

\* Attrs::default() and Attrs::new().bold()
Attrs_default == {}
Attrs_bold == {"bold"}

\* Cell::default
Cell_default == [char |-> 32, fg |-> White, bg |-> Black, attrs |-> Attrs_default,
                 dirty |-> TRUE]

\* Cell::set
Cell_set(cell, ch, fg, bg, attrs) ==
    IF cell.char # ch \/ cell.fg # fg \/ cell.bg # bg \/ cell.attrs # attrs
    THEN [char |-> ch, fg |-> fg, bg |-> bg, attrs |-> attrs, dirty |-> TRUE]
    ELSE cell

\* Cell::set_char, Cell::set_fg, Cell::set_bg
Cell_set_char(cell, ch) ==
    IF cell.char # ch THEN [cell EXCEPT !.char = ch, !.dirty = TRUE] ELSE cell
Cell_set_fg(cell, fg) ==
    IF cell.fg # fg THEN [cell EXCEPT !.fg = fg, !.dirty = TRUE] ELSE cell
Cell_set_bg(cell, bg) ==
    IF cell.bg # bg THEN [cell EXCEPT !.bg = bg, !.dirty = TRUE] ELSE cell

\* Cell::clear
Cell_clear(cell) == Cell_default

\* Grid::new: cells in row-major order (cells[y * cols + x + 1] is (x, y))
Grid_new(cols, rows) ==
    [cols |-> cols, rows |-> rows, cells |-> [i \in 1..(cols * rows) |-> Cell_default]]

\* Grid::index
Grid_inside(g, x, y) == x >= 0 /\ y >= 0 /\ x < g.cols /\ y < g.rows
Grid_index(g, x, y) == y * g.cols + x + 1

\* Grid::get (only called on positions inside the grid here)
Grid_get(g, x, y) == g.cells[Grid_index(g, x, y)]

\* Grid::set
Grid_set(g, x, y, ch, fg, bg, attrs) ==
    IF Grid_inside(g, x, y)
    THEN [g EXCEPT !.cells[Grid_index(g, x, y)] = Cell_set(@, ch, fg, bg, attrs)]
    ELSE g

\* Grid::set_char
Grid_set_char(g, x, y, ch) ==
    IF Grid_inside(g, x, y)
    THEN [g EXCEPT !.cells[Grid_index(g, x, y)] = Cell_set_char(@, ch)]
    ELSE g

\* Grid::blit: the cells of the w x h region that lie inside both grids take
\* the source's value and become dirty (no two iterations write one cell)
Grid_blit(g, src, src_x, src_y, dst_x, dst_y, w, h) ==
    [g EXCEPT !.cells = [i \in DOMAIN g.cells |->
        LET dx == ((i - 1) % g.cols) - dst_x
            dy == ((i - 1) \div g.cols) - dst_y
        IN IF /\ dx >= 0 /\ dx < w /\ dy >= 0 /\ dy < h
              /\ Grid_inside(src, src_x + dx, src_y + dy)
           THEN [Grid_get(src, src_x + dx, src_y + dy) EXCEPT !.dirty = TRUE]
           ELSE g.cells[i]]]

\* Grid::clear (Cell::clear on every cell)
Grid_clear(g) == [g EXCEPT !.cells = [i \in DOMAIN g.cells |-> Cell_default]]

\* Grid::clear_with
Grid_clear_with(g, ch, fg, bg) ==
    [g EXCEPT !.cells = [i \in DOMAIN g.cells |->
        [char |-> ch, fg |-> fg, bg |-> bg, attrs |-> Attrs_default, dirty |-> TRUE]]]

\* Grid::copy_from
Grid_copy_from(g, other) ==
    IF g.cols = other.cols /\ g.rows = other.rows
    THEN [g EXCEPT !.cells = [i \in DOMAIN g.cells |-> [other.cells[i] EXCEPT !.dirty = TRUE]]]
    ELSE g

\* Grid::mark_all_clean
Grid_mark_all_clean(g) ==
    [g EXCEPT !.cells = [i \in DOMAIN g.cells |-> [g.cells[i] EXCEPT !.dirty = FALSE]]]

\* Grid::resize (content is lost)
Grid_resize(g, cols, rows) == Grid_new(cols, rows)

\* One call of Grid::set, as data: the writes of a drawing routine are listed
\* in program order and applied one after the other (the list is applied in
\* two halves, the first half computed before the second is begun; no write
\* changes the grid's size).
Write(x, y, ch, fg, bg, attrs) ==
    [x |-> x, y |-> y, char |-> ch, fg |-> fg, bg |-> bg, attrs |-> attrs]

RECURSIVE Grid_apply_range(_, _, _, _)
Grid_apply_range(g, writes, lo, hi) ==
    IF lo > hi THEN g
    ELSE IF lo = hi
    THEN LET w == writes[lo] IN Grid_set(g, w.x, w.y, w.char, w.fg, w.bg, w.attrs)
    ELSE LET mid == (lo + hi) \div 2
             first == Grid_apply_range(g, writes, lo, mid)
         IN IF first.cols = g.cols
            THEN Grid_apply_range(first, writes, mid + 1, hi)
            ELSE first

Grid_apply(g, writes) == Grid_apply_range(g, writes, 1, Len(writes))

\* Grid::write_str: one set per character; the loop's break at the right
\* edge skips exactly the writes Grid::set would ignore.
write_str_writes(x, y, s, fg, bg, attrs) ==
    [i \in 1..Len(s) |-> Write(x + i - 1, y, s[i], fg, bg, attrs)]

Grid_write_str(g, x, y, s, fg, bg, attrs) ==
    Grid_apply(g, write_str_writes(x, y, s, fg, bg, attrs))

\* Grid::fill_rect
Grid_fill_rect(g, x, y, w, h, ch, fg, bg) ==
    Grid_apply(g, [i \in 1..(w * h) |->
        Write(x + ((i - 1) % w), y + ((i - 1) \div w), ch, fg, bg, Attrs_default)])

(***************************************************************************)
(* src/core/window.rs : Window                                             *)
(***************************************************************************)
\* BorderStyle::chars: tl, tr, bl, br, h, v of each style (code points)
BoxChars(border) ==
    CASE border = "single" -> [tl |-> 9484, tr |-> 9488, bl |-> 9492, br |-> 9496, h |-> 9472, v |-> 9474]
      [] border = "double" -> [tl |-> 9556, tr |-> 9559, bl |-> 9562, br |-> 9565, h |-> 9552, v |-> 9553]
      [] border = "rounded" -> [tl |-> 9581, tr |-> 9582, bl |-> 9584, br |-> 9583, h |-> 9472, v |-> 9474]
      [] border = "heavy" -> [tl |-> 9487, tr |-> 9491, bl |-> 9495, br |-> 9499, h |-> 9473, v |-> 9475]
      [] OTHER -> [tl |-> 43, tr |-> 43, bl |-> 43, br |-> 43, h |-> 45, v |-> 124]

\* BorderStyle::has_border
has_border(border) == border # "none"

\* Window::content_size
content_size_unbordered(width, height, border) == <<width, height>>
content_size(width, height, border) ==
    IF has_border(border) THEN <<SatSub(width, 2), SatSub(height, 2)>>
    ELSE <<width, height>>

\* Window::new
Window_new(id, x, y, width, height) ==
    LET cs == content_size(width, height, "single") IN
    [id |-> id, x |-> x, y |-> y, width |-> width, height |-> height,
     border |-> "single", border_color |-> White, title |-> None,
     title_align |-> "center", background |-> Black, visible |-> TRUE,
     z_index |-> 0, content |-> Grid_new(cs[1], cs[2]), dirty |-> TRUE,
     closable |-> TRUE, resizable |-> TRUE, draggable |-> TRUE,
     min_width |-> 10, min_height |-> 5, invert |-> FALSE]

\* Window::content_offset
content_offset(w) == IF has_border(w.border) THEN <<1, 1>> ELSE <<0, 0>>

\* Window::set_border
set_border(w, border) ==
    IF w.border # border
    THEN LET cs == content_size(w.width, w.height, border) IN
         [w EXCEPT !.border = border,
                   !.content = Grid_resize(w.content, cs[1], cs[2]),
                   !.dirty = TRUE]
    ELSE w

\* Window::set_title
set_title(w, title) == [w EXCEPT !.title = Some(title), !.dirty = TRUE]

\* Window::clear
Window_clear(w) ==
    [w EXCEPT !.content = Grid_clear_with(w.content, 32, White, w.background),
              !.dirty = TRUE]

\* Window::print (bg is always Some(..) at the call sites)
Window_print(w, x, y, text, fg, bg) ==
    [w EXCEPT !.content = Grid_write_str(w.content, x, y, text, fg, bg, Attrs_default),
              !.dirty = TRUE]

\* Window::set
Window_set(w, x, y, ch, fg, bg) ==
    [w EXCEPT !.content = Grid_set(w.content, x, y, ch, fg, bg, Attrs_default),
              !.dirty = TRUE]

\* Window::fill
Window_fill(w, x, y, width, height, ch, fg, bg) ==
    [w EXCEPT !.content = Grid_fill_rect(w.content, x, y, width, height, ch, fg, bg),
              !.dirty = TRUE]

\* Window::resize
Window_resize(w, width, height) ==
    LET cs == content_size(width, height, w.border) IN
    [w EXCEPT !.width = width, !.height = height,
              !.content = Grid_resize(w.content, cs[1], cs[2]),
              !.dirty = TRUE]

\* Window::show / Window::hide
Window_show(w) == [w EXCEPT !.visible = TRUE, !.dirty = TRUE]
Window_hide(w) == [w EXCEPT !.visible = FALSE, !.dirty = TRUE]

\* Window::hit_close_button
Window_hit_close_button(w, x, y) ==
    IF ~w.closable \/ ~w.visible \/ ~has_border(w.border) THEN FALSE
    ELSE y = w.y /\ (x = w.x + 1 \/ x = w.x + 2)

\* Window::hit_title_bar
Window_hit_title_bar(w, x, y) ==
    IF ~w.draggable \/ ~w.visible \/ ~has_border(w.border) THEN FALSE
    ELSE LET title_start == IF w.closable THEN w.x + 3 ELSE w.x + 1 IN
         y = w.y /\ x >= title_start /\ x < w.x + w.width - 1

\* Window::hit_resize_handle
Window_hit_resize_handle(w, x, y) ==
    IF ~w.resizable \/ ~w.visible \/ ~has_border(w.border) THEN FALSE
    ELSE x = w.x + w.width - 1 /\ y = w.y + w.height - 1

\* Window::contains
Window_contains(w, x, y) ==
    /\ w.visible
    /\ x >= w.x /\ x < w.x + w.width
    /\ y >= w.y /\ y < w.y + w.height

\* String::len: the length in bytes of the UTF-8 encoding
Utf8Len(c) == IF c < 128 THEN 1 ELSE IF c < 2048 THEN 2 ELSE IF c < 65536 THEN 3 ELSE 4
RECURSIVE String_len(_)
String_len(s) == IF s = <<>> THEN 0 ELSE Utf8Len(Head(s)) + String_len(Tail(s))

Ellipsis == 8230
ResizeGlyph == 9698

\* Window::render_to, the title: display_title and the three writes.  Titles
\* are ASCII here, so the byte slice &title[..n] is the first n characters;
\* display_title.len() is a length in bytes, also after the ellipsis is added.
title_writes(w) ==
    IF w.title = None THEN <<>>
    ELSE LET title == w.title[1]
             title_start == IF w.closable THEN 4 ELSE 2
             max_len == SatSub(w.width, title_start + 2)
             display_title ==
                 IF String_len(title) > max_len
                 THEN SubSeq(title, 1, SatSub(max_len, 1)) \o <<Ellipsis>>
                 ELSE title
             dlen == String_len(display_title)
             title_x ==
                 CASE w.title_align = "left" -> w.x + title_start
                   [] w.title_align = "right" -> w.x + w.width - 2 - dlen
                   [] OTHER ->
                        LET available_space == SatSub(w.width, title_start) IN
                        w.x + title_start + (SatSub(available_space, dlen + 2) \div 2)
         IN IF title_x > w.x
            THEN <<Write(SatSub(title_x, 1), w.y, 91, w.border_color, w.background, Attrs_default)>>
                 \o write_str_writes(title_x, w.y, display_title, BrightWhite, w.background, Attrs_bold)
                 \o <<Write(title_x + dlen, w.y, 93, w.border_color, w.background, Attrs_default)>>
            ELSE <<>>

\* Window::render_to, the border and chrome, in program order (width and
\* height at least 1: with 0 the usize subtractions of the loops underflow)
border_writes(w) ==
    IF ~has_border(w.border) THEN <<>>
    ELSE LET bc == BoxChars(w.border)
             B(x, y, ch) == Write(x, y, ch, w.border_color, w.background, Attrs_default)
             right == w.x + w.width - 1
             bottom == w.y + w.height - 1
         IN <<B(w.x, w.y, bc.tl), B(right, w.y, bc.tr), B(w.x, bottom, bc.bl),
              B(right, bottom, bc.br)>>
            \o [dx \in 1..(w.width - 2) |-> B(w.x + dx, w.y, bc.h)]
            \o [dx \in 1..(w.width - 2) |-> B(w.x + dx, bottom, bc.h)]
            \o [i \in 1..(2 * (w.height - 2)) |->
                   IF i % 2 = 1 THEN B(w.x, w.y + ((i + 1) \div 2), bc.v)
                   ELSE B(right, w.y + (i \div 2), bc.v)]
            \o (IF w.closable /\ w.width >= 4
                THEN <<B(w.x + 1, w.y, 91), B(w.x + 2, w.y, 93)>> ELSE <<>>)
            \o title_writes(w)
            \o (IF w.resizable /\ w.width >= 2 /\ w.height >= 2
                THEN <<B(right, bottom, ResizeGlyph)>> ELSE <<>>)

\* Window::render_to, the content: every cell of the content grid at the
\* content offset
content_writes(w) ==
    LET off == content_offset(w) IN
    [i \in 1..Len(w.content.cells) |->
        LET c == w.content.cells[i] IN
        Write(w.x + off[1] + ((i - 1) % w.content.cols),
              w.y + off[2] + ((i - 1) \div w.content.cols),
              c.char, c.fg, c.bg, c.attrs)]

\* Window::render_to, invert mode: every target cell under the rectangle gets
\* its fg and bg swapped (each cell is visited once)
invert_region(w, target) ==
    [target EXCEPT !.cells = [i \in DOMAIN target.cells |->
        LET tx == (i - 1) % target.cols
            ty == (i - 1) \div target.cols
            c == target.cells[i]
        IN IF tx >= w.x /\ tx < w.x + w.width /\ ty >= w.y /\ ty < w.y + w.height
           THEN Cell_set(c, c.char, c.bg, c.fg, c.attrs)
           ELSE c]]

\* Window::render_to
render_to(w, target) ==
    IF ~w.visible THEN target
    ELSE IF w.invert THEN invert_region(w, target)
    ELSE Grid_apply(target, border_writes(w) \o content_writes(w))

(***************************************************************************)
(* src/core/window.rs : WindowManager                                      *)
(***************************************************************************)
EmptyMap == [k \in {} |-> 0]
MapPut(m, k, v) == [j \in DOMAIN m \cup {k} |-> IF j = k THEN v ELSE m[j]]
MapRemove(m, k) == [j \in DOMAIN m \ {k} |-> m[j]]
\* Vec::retain(|e| e != x)
RECURSIVE Retain(_, _)
Retain(s, x) ==
    IF s = <<>> THEN <<>>
    ELSE IF Head(s) = x THEN Retain(Tail(s), x) ELSE <<Head(s)>> \o Retain(Tail(s), x)

\* WindowManager::new
WM_new(cols, rows) ==
    [cols |-> cols, rows |-> rows, windows |-> EmptyMap, z_order |-> <<>>,
     background |-> Grid_new(cols, rows), display |-> Grid_new(cols, rows)]

\* WindowManager::create_window
create_window(wm, id, x, y, width, height) ==
    IF id \in DOMAIN wm.windows
    THEN LET e == wm.windows[id]
             moved == [e EXCEPT !.x = x, !.y = y]
             sized == IF e.width # width \/ e.height # height
                      THEN Window_resize(moved, width, height) ELSE moved
         IN [wm EXCEPT !.windows[id] = [sized EXCEPT !.dirty = TRUE]]
    ELSE [wm EXCEPT !.windows = MapPut(wm.windows, id, Window_new(id, x, y, width, height)),
                    !.z_order = Append(wm.z_order, id)]

\* WindowManager::remove
WM_remove(wm, id) ==
    [wm EXCEPT !.windows = MapRemove(wm.windows, id), !.z_order = Retain(wm.z_order, id)]

\* WindowManager::clear_all_windows
clear_all_windows(wm) == [wm EXCEPT !.windows = EmptyMap, !.z_order = <<>>]

\* the key of update_z_order's comparison
z_key(wm, id) == IF id \in DOMAIN wm.windows THEN wm.windows[id].z_index ELSE 0

\* slice::sort_by (a stable sort) on z_key: each id is inserted after the
\* ids already placed whose key is not greater
RECURSIVE InsertByZ(_, _, _)
InsertByZ(wm, sorted, id) ==
    IF sorted = <<>> THEN <<id>>
    ELSE IF z_key(wm, sorted[Len(sorted)]) <= z_key(wm, id) THEN Append(sorted, id)
    ELSE Append(InsertByZ(wm, SubSeq(sorted, 1, Len(sorted) - 1), id), sorted[Len(sorted)])

RECURSIVE SortByZ(_, _)
SortByZ(wm, ids) ==
    IF ids = <<>> THEN <<>>
    ELSE InsertByZ(wm, SortByZ(wm, SubSeq(ids, 1, Len(ids) - 1)), ids[Len(ids)])

\* WindowManager::update_z_order
update_z_order(wm) == [wm EXCEPT !.z_order = SortByZ(wm, wm.z_order)]

SetMax(S, dflt) == IF S = {} THEN dflt ELSE CHOOSE m \in S : \A n \in S : n <= m
SetMin(S, dflt) == IF S = {} THEN dflt ELSE CHOOSE m \in S : \A n \in S : m <= n
ZIndices(wm) == {wm.windows[i].z_index : i \in DOMAIN wm.windows}

\* z_index is an i32
I32Max == 2147483647
I32Min == -I32Max - 1

\* i32 + 1 and i32 - 1 as a build without overflow checks computes them
wrapping_inc(z) == IF z = I32Max THEN I32Min ELSE z + 1
wrapping_dec(z) == IF z = I32Min THEN I32Max ELSE z - 1

\* WindowManager::bring_to_front, max_z + 1 leaves the range of i32: a
\* build with overflow checks panics there, before the assignment
front_overflows(wm, id) == id \in DOMAIN wm.windows /\ SetMax(ZIndices(wm), 0) = I32Max

\* WindowManager::send_to_back, min_z - 1 leaves the range of i32
back_overflows(wm, id) == id \in DOMAIN wm.windows /\ SetMin(ZIndices(wm), 0) = I32Min

\* WindowManager::bring_to_front
bring_to_front(wm, id) ==
    LET max_z == SetMax(ZIndices(wm), 0) IN
    update_z_order(IF id \in DOMAIN wm.windows
                   THEN [wm EXCEPT !.windows[id].z_index = wrapping_inc(max_z)] ELSE wm)

\* WindowManager::send_to_back
send_to_back(wm, id) ==
    LET min_z == SetMin(ZIndices(wm), 0) IN
    update_z_order(IF id \in DOMAIN wm.windows
                   THEN [wm EXCEPT !.windows[id].z_index = wrapping_dec(min_z)] ELSE wm)

\* WindowManager::composite, the loop over z_order
RECURSIVE render_all(_, _, _)
render_all(wm, ids, target) ==
    IF ids = <<>> THEN target
    ELSE render_all(wm, Tail(ids),
                    IF Head(ids) \in DOMAIN wm.windows
                    THEN render_to(wm.windows[Head(ids)], target) ELSE target)

\* WindowManager::composite
composite(wm) ==
    [wm EXCEPT !.display = render_all(wm, wm.z_order, Grid_copy_from(wm.display, wm.background))]

\* WindowManager::mark_all_clean
WM_mark_all_clean(wm) ==
    [wm EXCEPT !.windows = [i \in DOMAIN wm.windows |-> [wm.windows[i] EXCEPT !.dirty = FALSE]]]

\* WindowManager::is_dirty
WM_is_dirty(wm) == \E i \in DOMAIN wm.windows : wm.windows[i].dirty

\* WindowManager::resize
WM_resize(wm, cols, rows) ==
    [wm EXCEPT !.cols = cols, !.rows = rows,
               !.background = Grid_resize(wm.background, cols, rows),
               !.display = Grid_resize(wm.display, cols, rows)]

\* WindowManager::window_at: the ids from front to back, the first that
\* contains the point
RECURSIVE window_at_from(_, _, _, _)
window_at_from(wm, i, x, y) ==
    IF i = 0 THEN None
    ELSE IF wm.z_order[i] \in DOMAIN wm.windows
            /\ Window_contains(wm.windows[wm.z_order[i]], x, y)
    THEN Some(wm.z_order[i])
    ELSE window_at_from(wm, i - 1, x, y)

window_at_bottom(wm, x, y) ==
    LET hits == {i \in 1..Len(wm.z_order) :
                    /\ wm.z_order[i] \in DOMAIN wm.windows
                    /\ Window_contains(wm.windows[wm.z_order[i]], x, y)}
    IN IF hits = {} THEN None ELSE Some(wm.z_order[SetMin(hits, 0)])
window_at(wm, x, y) == window_at_from(wm, Len(wm.z_order), x, y)

(***************************************************************************)
(* src/renderer/ansi_ibm.rs : the renderer's tracked state.  The escape    *)
(* sequences it returns are not represented, only what it remembers.       *)
(***************************************************************************)
\* AnsiIbmRenderer::new
Renderer_new(cols, rows) ==
    [cols |-> cols, rows |-> rows, cursor_x |-> 0, cursor_y |-> 0,
     current_fg |-> White, current_bg |-> Black, current_attrs |-> Attrs_default]

\* AnsiIbmRenderer::reset
Renderer_reset(r) ==
    [r EXCEPT !.cursor_x = 0, !.cursor_y = 0, !.current_fg = White,
              !.current_bg = Black, !.current_attrs = Attrs_default]

\* AnsiIbmRenderer::sgr leaves the colours and attributes of the cell drawn
Renderer_sgr(r, cell) ==
    [r EXCEPT !.current_fg = cell.fg, !.current_bg = cell.bg, !.current_attrs = cell.attrs]

\* Renderer::render_full: reset, then per row move_cursor(0, y) and one
\* render_cell per column; what remains is the last row and the last cell
render_full(r, grid) ==
    LET r0 == Renderer_reset(r)
        nrows == Min(grid.rows, r.rows)
        ncols == Min(grid.cols, r.cols)
    IN IF nrows = 0 THEN r0
       ELSE LET moved == [r0 EXCEPT !.cursor_x = 0, !.cursor_y = nrows - 1] IN
            IF ncols = 0 THEN moved
            ELSE Renderer_sgr(moved, Grid_get(grid, ncols - 1, nrows - 1))

\* Renderer::render_dirty: the dirty cells in row-major order; the cursor is
\* moved to every dirty cell that does not directly follow the previous one
render_dirty(r, grid) ==
    LET dirty == {i \in DOMAIN grid.cells : grid.cells[i].dirty}
        total == grid.cols * grid.rows
    IN IF Cardinality(dirty) > total \div 2 THEN render_full(r, grid)
       ELSE IF dirty = {} THEN r
       ELSE LET moves == {i \in dirty : ~((i - 1) \in dirty /\ (i - 1) % grid.cols # 0)}
                m == SetMax(moves, 1)
                l == SetMax(dirty, 1)
            IN Renderer_sgr([r EXCEPT !.cursor_x = (m - 1) % grid.cols,
                                      !.cursor_y = (m - 1) \div grid.cols],
                            grid.cells[l])

\* Renderer::render
render(r, grid, force_full) ==
    IF force_full THEN render_full(r, grid) ELSE render_dirty(r, grid)

(***************************************************************************)
(* src/renderer/ansi_ibm.rs : the bytes the renderer returns.  A run is    *)
(* the renderer after a call together with the bytes the call returned.    *)
(***************************************************************************)
BrightMagenta == 13
CSI == <<ESC, 91>>

\* String::push(char): the UTF-8 encoding of a code point
Utf8Encode(c) ==
    IF c < 128 THEN <<c>>
    ELSE IF c < 2048 THEN <<192 + (c \div 64), 128 + (c % 64)>>
    ELSE IF c < 65536
    THEN <<224 + (c \div 4096), 128 + ((c \div 64) % 64), 128 + (c % 64)>>
    ELSE <<240 + (c \div 262144), 128 + ((c \div 4096) % 64),
           128 + ((c \div 64) % 64), 128 + (c % 64)>>

\* Color::fg_code, Color::bg_code
fg_code(v) == IF v < 8 THEN 30 + v ELSE 90 + (v - 8)
bg_code(v) == IF v < 8 THEN 40 + v ELSE 100 + (v - 8)

\* codes.join(";") of the decimal codes
RECURSIVE JoinCodes(_)
JoinCodes(codes) ==
    IF codes = <<>> THEN <<>>
    ELSE IF Len(codes) = 1 THEN Digits(codes[1])
    ELSE Digits(codes[1]) \o <<59>> \o JoinCodes(Tail(codes))

\* AnsiIbmRenderer::move_cursor
move_cursor(r, x, y) ==
    [r |-> [r EXCEPT !.cursor_x = x, !.cursor_y = y],
     out |-> CSI \o Digits(y + 1) \o <<59>> \o Digits(x + 1) \o <<72>>]

\* the SGR codes AnsiIbmRenderer::sgr collects, in its order
AttrCodes(on) ==
    (IF "bold" \in on THEN <<1>> ELSE <<>>) \o (IF "dim" \in on THEN <<2>> ELSE <<>>)
    \o (IF "italic" \in on THEN <<3>> ELSE <<>>)
    \o (IF "underline" \in on THEN <<4>> ELSE <<>>)
    \o (IF "blink" \in on THEN <<5>> ELSE <<>>)
    \o (IF "reverse" \in on THEN <<7>> ELSE <<>>)
sgr_codes(r, fg, bg, attrs) ==
    LET needs_reset == r.current_attrs \ attrs # {}
        cur_fg == IF needs_reset THEN BrightMagenta ELSE r.current_fg
        cur_bg == IF needs_reset THEN BrightMagenta ELSE r.current_bg
        cur_attrs == IF needs_reset THEN Attrs_default ELSE r.current_attrs
    IN (IF needs_reset THEN <<0>> ELSE <<>>)
       \o AttrCodes(attrs \ cur_attrs)
       \o (IF fg # cur_fg THEN <<fg_code(fg)>> ELSE <<>>)
       \o (IF bg # cur_bg THEN <<bg_code(bg)>> ELSE <<>>)

\* AnsiIbmRenderer::sgr
sgr(r, fg, bg, attrs) ==
    LET codes == sgr_codes(r, fg, bg, attrs) IN
    [r |-> [r EXCEPT !.current_fg = fg, !.current_bg = bg, !.current_attrs = attrs],
     out |-> IF codes = <<>> THEN <<>> ELSE CSI \o JoinCodes(codes) \o <<109>>]

\* AnsiIbmRenderer::render_cell: control characters are written as a space
render_cell(r, cell) ==
    LET s == sgr(r, cell.fg, cell.bg, cell.attrs)
        ch == IF cell.char < 32 \/ cell.char = 127 THEN 32 ELSE cell.char
    IN [r |-> s.r, out |-> s.out \o Utf8Encode(ch)]

\* the steps of a render call, in order: a cursor move or a cell
MoveStep(x, y) == [move |-> TRUE, x |-> x, y |-> y]
CellStep(cell) == [move |-> FALSE, cell |-> cell]

\* the steps lo..hi run one after the other, by halves
RECURSIVE run_steps(_, _, _, _)
run_steps(r, plan, lo, hi) ==
    IF lo > hi THEN [r |-> r, out |-> <<>>]
    ELSE IF lo = hi
    THEN IF plan[lo].move THEN move_cursor(r, plan[lo].x, plan[lo].y)
         ELSE render_cell(r, plan[lo].cell)
    ELSE LET mid == (lo + hi) \div 2
             first == run_steps(r, plan, lo, mid)
         IN IF first.r.cols = r.cols
            THEN LET second == run_steps(first.r, plan, mid + 1, hi)
                 IN [r |-> second.r, out |-> first.out \o second.out]
            ELSE first

\* Renderer::render_full, with its output
full_plan(r, grid) ==
    LET nrows == Min(grid.rows, r.rows)
        ncols == Min(grid.cols, r.cols)
    IN [k \in 1..(nrows * (ncols + 1)) |->
           LET y == (k - 1) \div (ncols + 1)
               j == (k - 1) % (ncols + 1)
           IN IF j = 0 THEN MoveStep(0, y) ELSE CellStep(Grid_get(grid, j - 1, y))]
render_full_run(r, grid) ==
    LET plan == full_plan(r, grid)
        run == run_steps(Renderer_reset(r), plan, 1, Len(plan))
    IN [r |-> run.r, out |-> CSI \o <<72>> \o CSI \o <<48, 109>> \o run.out]

\* the dirty cells in row-major order, as indices into cells
RECURSIVE SortedSeq(_)
SortedSeq(S) ==
    IF S = {} THEN <<>>
    ELSE LET m == CHOOSE i \in S : \A j \in S : i <= j IN <<m>> \o SortedSeq(S \ {m})

\* Renderer::render_dirty, with its output
dirty_plan(grid) ==
    LET dirty == SortedSeq({i \in DOMAIN grid.cells : grid.cells[i].dirty})
        X(i) == (i - 1) % grid.cols
        Y(i) == (i - 1) \div grid.cols
        need_move(k) == k = 1 \/ ~(Y(dirty[k]) = Y(dirty[k - 1])
                                    /\ X(dirty[k]) = X(dirty[k - 1]) + 1)
        steps_of(k) == (IF need_move(k) THEN <<MoveStep(X(dirty[k]), Y(dirty[k]))>>
                        ELSE <<>>) \o <<CellStep(grid.cells[dirty[k]])>>
        Flat[k \in 0..Len(dirty)] == IF k = 0 THEN <<>> ELSE Flat[k - 1] \o steps_of(k)
    IN Flat[Len(dirty)]

\* a render_dirty that also redraws in full when exactly half of the cells
\* are dirty (>= where the renderer has >)
render_dirty_at_half(r, grid) ==
    LET dirty_count == Cardinality({i \in DOMAIN grid.cells : grid.cells[i].dirty})
        total == grid.cols * grid.rows
    IN IF dirty_count >= total \div 2 THEN render_full_run(r, grid)
       ELSE LET plan == dirty_plan(grid) IN run_steps(r, plan, 1, Len(plan))
render_dirty_run(r, grid) ==
    LET dirty_count == Cardinality({i \in DOMAIN grid.cells : grid.cells[i].dirty})
        total == grid.cols * grid.rows
    IN IF dirty_count > total \div 2 THEN render_full_run(r, grid)
       ELSE LET plan == dirty_plan(grid) IN run_steps(r, plan, 1, Len(plan))

\* Renderer::render, with its output
render_run(r, grid, force_full) ==
    IF force_full THEN render_full_run(r, grid) ELSE render_dirty_run(r, grid)

\* Renderer::init, Renderer::disable_mouse, Renderer::shutdown: the bytes
init_output ==
    CSI \o <<63, 50, 53, 108>> \o CSI \o <<50, 74>> \o CSI \o <<72>> \o CSI \o <<48, 109>>
disable_mouse_output ==
    CSI \o <<63, 49, 48, 48, 48, 108>> \o CSI \o <<63, 49, 48, 48, 50, 108>>
    \o CSI \o <<63, 49, 48, 48, 51, 108>> \o CSI \o <<63, 49, 48, 48, 54, 108>>
shutdown_output ==
    disable_mouse_output \o CSI \o <<48, 109>> \o CSI \o <<63, 50, 53, 104>>
    \o CSI \o <<50, 74>> \o CSI \o <<72>>

(***************************************************************************)
(* src/terminal.rs : Terminal, the emulator of an embedded terminal.  A    *)
(* screen is a sequence of rows, a row a sequence of cells.  panicked: an  *)
(* index outside the screen, or an overflow of usize arithmetic in a build *)
(* with overflow checks, has ended the task that was running the emulator. *)
(***************************************************************************)
\* usize arithmetic without overflow checks wraps; the modulus stands for
\* 2^64 and is far above every size, coordinate and parameter of the model
UsizeModulus == 1073741824
wrapping_sub(a, b) == IF a >= b THEN a - b ELSE a - b + UsizeModulus
wrapping_add(a, b) == (a + b) % UsizeModulus

\* Cell::full
Cell_full(ch, fg, bg, attrs) ==
    [char |-> ch, fg |-> fg, bg |-> bg, attrs |-> attrs, dirty |-> TRUE]

\* Terminal::new; overflow_checks is the build's setting
Terminal_new(width, height, terminal_type, overflow_checks) ==
    [width |-> width, height |-> height,
     screen |-> [y \in 1..height |-> [x \in 1..width |-> Cell_full(32, White, Black, {})]],
     cursor_x |-> 0, cursor_y |-> 0, fg |-> White, bg |-> Black, attrs |-> {},
     saved_cursor |-> None, scrollback |-> <<>>, max_scrollback |-> 1000,
     dirty |-> TRUE, parser_state |-> "normal", esc_buffer |-> <<>>,
     terminal_type |-> terminal_type, response_queue |-> <<>>,
     overflow_checks |-> overflow_checks, panicked |-> FALSE]

Panic(t) == [t EXCEPT !.panicked = TRUE]

\* the emulator a panicked call leaves behind its lock, which does not poison
Unwound(t) == [t EXCEPT !.panicked = FALSE]

\* a - 1 on usize: a panic with overflow checks, a wrap without
Underflows(t, a) == a = 0 /\ t.overflow_checks

\* a sum on usize that passes the largest value: the same
Overflows(t, a) == a >= UsizeModulus /\ t.overflow_checks

\* the blank row and cell of the erase and scroll functions
Term_blank(t) == Cell_full(32, t.fg, t.bg, {})
Term_blank_row(t) == [x \in 1..t.width |-> Term_blank(t)]

\* a scroll_up that drops the newest row of a full scrollback
scroll_up_keep_oldest(t) ==
    IF t.screen = <<>> THEN t
    ELSE [t EXCEPT !.scrollback = IF Len(@) < t.max_scrollback
                                  THEN Append(@, Head(t.screen)) ELSE @,
                   !.screen = Append(Tail(t.screen), Term_blank_row(t))]

\* Terminal::scroll_up
scroll_up(t) ==
    IF t.screen = <<>> THEN t
    ELSE LET pushed == Append(t.scrollback, Head(t.screen))
             over == Max(Len(pushed) - t.max_scrollback, 0)
         IN [t EXCEPT !.scrollback = SubSeq(pushed, over + 1, Len(pushed)),
                      !.screen = Append(Tail(t.screen), Term_blank_row(t))]

\* Terminal::scroll_down
scroll_down(t) ==
    IF t.screen = <<>> THEN t
    ELSE [t EXCEPT !.screen = <<Term_blank_row(t)>> \o SubSeq(@, 1, Len(@) - 1)]

\* the loops of CSI S and CSI T: n calls, made as two halves
RECURSIVE scroll_up_times(_, _)
scroll_up_times(t, n) ==
    IF n = 0 THEN t
    ELSE IF n = 1 THEN scroll_up(t)
    ELSE LET half == scroll_up_times(t, n \div 2) IN
         IF half.panicked THEN half ELSE scroll_up_times(half, n - (n \div 2))
RECURSIVE scroll_down_times(_, _)
scroll_down_times(t, n) ==
    IF n = 0 THEN t
    ELSE IF n = 1 THEN scroll_down(t)
    ELSE LET half == scroll_down_times(t, n \div 2) IN
         IF half.panicked THEN half ELSE scroll_down_times(half, n - (n \div 2))

\* Terminal::newline
newline(t) ==
    IF Underflows(t, t.height) THEN Panic(t)
    ELSE IF t.cursor_y < wrapping_sub(t.height, 1)
    THEN [t EXCEPT !.cursor_y = @ + 1]
    ELSE scroll_up(t)

\* Terminal::put_char
put_char(t, ch) ==
    LET t1 == IF t.cursor_x >= t.width THEN newline([t EXCEPT !.cursor_x = 0]) ELSE t IN
    IF t1.panicked THEN t1
    ELSE IF t1.cursor_y < t1.height /\ t1.cursor_x < t1.width
    THEN [t1 EXCEPT !.screen[t1.cursor_y + 1][t1.cursor_x + 1] =
                        Cell_full(ch, t1.fg, t1.bg, t1.attrs),
                    !.cursor_x = @ + 1]
    ELSE t1

\* the cells (x, y) of `region` made blank: a cell outside the screen is an
\* index out of bounds
erase_cells(t, region) ==
    IF \E p \in region : p[2] >= Len(t.screen) \/ p[1] >= Len(t.screen[p[2] + 1])
    THEN Panic(t)
    ELSE [t EXCEPT !.screen = [y \in 1..Len(t.screen) |-> [x \in 1..Len(t.screen[y]) |->
              IF <<x - 1, y - 1>> \in region THEN Term_blank(t) ELSE t.screen[y][x]]]]

\* Terminal::erase_line_right, erase_line_left, erase_line
erase_line_right(t) ==
    erase_cells(t, {<<x, t.cursor_y>> : x \in t.cursor_x..(t.width - 1)})
erase_line_left(t) ==
    IF Underflows(t, t.width) THEN Panic(t)
    ELSE erase_cells(t, {<<x, t.cursor_y>> :
                           x \in 0..Min(t.cursor_x, wrapping_sub(t.width, 1))})
erase_line(t) == erase_cells(t, {<<x, t.cursor_y>> : x \in 0..(t.width - 1)})

\* Terminal::erase_below, erase_above, erase_all
erase_below(t) ==
    LET t1 == erase_line_right(t) IN
    IF t1.panicked THEN t1
    ELSE erase_cells(t1, (0..(t.width - 1)) \X ((t.cursor_y + 1)..(t.height - 1)))
erase_above(t) ==
    LET t1 == erase_cells(t, (0..(t.width - 1)) \X (0..(t.cursor_y - 1))) IN
    IF t1.panicked THEN t1 ELSE erase_line_left(t1)
erase_all(t) == erase_cells(t, (0..(t.width - 1)) \X (0..(t.height - 1)))

\* Terminal::reset
Terminal_reset(t) ==
    erase_all([t EXCEPT !.cursor_x = 0, !.cursor_y = 0, !.fg = White, !.bg = Black,
                        !.attrs = {}, !.saved_cursor = None])

\* Terminal::resize; a panic leaves what was assigned before it
Terminal_resize(t, new_width, new_height) ==
    LET t1 == [t EXCEPT
                 !.screen = [y \in 1..new_height |-> [x \in 1..new_width |->
                                IF y <= Min(new_height, t.height) /\ x <= Min(new_width, t.width)
                                THEN t.screen[y][x]
                                ELSE Cell_full(32, White, Black, {})]],
                 !.width = new_width,
                 !.height = new_height]
        t2 == [t1 EXCEPT !.cursor_x = Min(@, wrapping_sub(new_width, 1))]
    IN IF Underflows(t, new_width) THEN Panic(t1)
       ELSE IF Underflows(t, new_height) THEN Panic(t2)
       ELSE [t2 EXCEPT !.cursor_y = Min(@, wrapping_sub(new_height, 1)), !.dirty = TRUE]

\* str::parse::<usize>() of a parameter, .unwrap_or(0)
parse_param(s) == ParseUnsigned(s, UsizeModulus - 1, 0)

\* Terminal::process_sgr from parameter i on
RECURSIVE process_sgr_from(_, _, _)
process_sgr_from(t, params, i) ==
    IF i > Len(params) THEN t
    ELSE LET p == params[i]
             extended == i + 2 <= Len(params) /\ params[i + 1] = 5
             color == IF extended THEN Color_from(params[i + 2] % 256) ELSE 0
         IN CASE p = 0 -> process_sgr_from([t EXCEPT !.fg = White, !.bg = Black, !.attrs = {}],
                                           params, i + 1)
              [] p = 1 -> process_sgr_from([t EXCEPT !.attrs = @ \cup {"bold"}], params, i + 1)
              [] p = 2 -> process_sgr_from([t EXCEPT !.attrs = @ \cup {"dim"}], params, i + 1)
              [] p = 3 -> process_sgr_from([t EXCEPT !.attrs = @ \cup {"italic"}], params, i + 1)
              [] p = 4 -> process_sgr_from([t EXCEPT !.attrs = @ \cup {"underline"}], params, i + 1)
              [] p \in {5, 6} ->
                   process_sgr_from([t EXCEPT !.attrs = @ \cup {"blink"}], params, i + 1)
              [] p = 7 -> process_sgr_from([t EXCEPT !.attrs = @ \cup {"reverse"}], params, i + 1)
              [] p = 21 -> process_sgr_from([t EXCEPT !.attrs = @ \ {"bold"}], params, i + 1)
              [] p = 22 ->
                   process_sgr_from([t EXCEPT !.attrs = @ \ {"bold", "dim"}], params, i + 1)
              [] p = 23 -> process_sgr_from([t EXCEPT !.attrs = @ \ {"italic"}], params, i + 1)
              [] p = 24 -> process_sgr_from([t EXCEPT !.attrs = @ \ {"underline"}], params, i + 1)
              [] p = 25 -> process_sgr_from([t EXCEPT !.attrs = @ \ {"blink"}], params, i + 1)
              [] p = 27 -> process_sgr_from([t EXCEPT !.attrs = @ \ {"reverse"}], params, i + 1)
              [] p \in 30..37 ->
                   process_sgr_from([t EXCEPT !.fg = Color_from(p - 30)], params, i + 1)
              [] p = 38 ->
                   IF extended THEN process_sgr_from([t EXCEPT !.fg = color], params, i + 3)
                   ELSE process_sgr_from(t, params, i + 1)
              [] p = 39 -> process_sgr_from([t EXCEPT !.fg = White], params, i + 1)
              [] p \in 40..47 ->
                   process_sgr_from([t EXCEPT !.bg = Color_from(p - 40)], params, i + 1)
              [] p = 48 ->
                   IF extended THEN process_sgr_from([t EXCEPT !.bg = color], params, i + 3)
                   ELSE process_sgr_from(t, params, i + 1)
              [] p = 49 -> process_sgr_from([t EXCEPT !.bg = Black], params, i + 1)
              [] p \in 90..97 ->
                   process_sgr_from([t EXCEPT !.fg = Color_from(p - 90 + 8)], params, i + 1)
              [] p \in 100..107 ->
                   process_sgr_from([t EXCEPT !.bg = Color_from(p - 100 + 8)], params, i + 1)
              [] OTHER -> process_sgr_from(t, params, i + 1)

process_sgr(t, params) == process_sgr_from(t, params, 1)

\* a report that counts rows and columns from 0
cursor_report_from_zero(t) ==
    <<ESC, 91>> \o Digits(t.cursor_y) \o <<59>> \o Digits(t.cursor_x) \o <<82>>

\* the cursor position report ESC [ row ; col R
cursor_report(t) ==
    <<ESC, 91>> \o Digits(t.cursor_y + 1) \o <<59>> \o Digits(t.cursor_x + 1) \o <<82>>

\* Terminal::execute_csi
execute_csi(t, final_byte) ==
    LET parts == SplitSemi(t.esc_buffer)
        params == [i \in 1..Len(parts) |-> parse_param(parts[i])]
        n == Max(params[1], 1)
        second == IF Len(params) >= 2 THEN Max(params[2], 1) ELSE 1
        last_col == wrapping_sub(t.width, 1)
        last_row == wrapping_sub(t.height, 1)
    IN CASE final_byte = 65 -> [t EXCEPT !.cursor_y = SatSub(@, n)]
         [] final_byte = 66 ->
              IF Overflows(t, t.cursor_y + n) \/ Underflows(t, t.height) THEN Panic(t)
              ELSE [t EXCEPT !.cursor_y = Min(wrapping_add(@, n), last_row)]
         [] final_byte = 67 ->
              IF Overflows(t, t.cursor_x + n) \/ Underflows(t, t.width) THEN Panic(t)
              ELSE [t EXCEPT !.cursor_x = Min(wrapping_add(@, n), last_col)]
         [] final_byte = 68 -> [t EXCEPT !.cursor_x = SatSub(@, n)]
         [] final_byte = 69 ->
              IF Overflows(t, t.cursor_y + n) \/ Underflows(t, t.height) THEN Panic(t)
              ELSE [t EXCEPT !.cursor_y = Min(wrapping_add(@, n), last_row), !.cursor_x = 0]
         [] final_byte = 70 -> [t EXCEPT !.cursor_y = SatSub(@, n), !.cursor_x = 0]
         [] final_byte = 71 ->
              IF Underflows(t, t.width) THEN Panic(t)
              ELSE [t EXCEPT !.cursor_x = Min(n - 1, last_col)]
         [] final_byte \in {72, 102} ->
              IF Underflows(t, t.height) \/ Underflows(t, t.width) THEN Panic(t)
              ELSE [t EXCEPT !.cursor_y = Min(n - 1, last_row),
                             !.cursor_x = Min(second - 1, last_col)]
         [] final_byte = 74 ->
              CASE params[1] = 0 -> erase_below(t)
                [] params[1] = 1 -> erase_above(t)
                [] params[1] \in {2, 3} -> erase_all(t)
                [] OTHER -> t
         [] final_byte = 75 ->
              CASE params[1] = 0 -> erase_line_right(t)
                [] params[1] = 1 -> erase_line_left(t)
                [] params[1] = 2 -> erase_line(t)
                [] OTHER -> t
         [] final_byte = 83 -> scroll_up_times(t, n)
         [] final_byte = 84 -> scroll_down_times(t, n)
         [] final_byte = 109 -> process_sgr(t, params)
         [] final_byte = 115 -> [t EXCEPT !.saved_cursor = Some(<<t.cursor_x, t.cursor_y>>)]
         [] final_byte = 117 ->
              IF t.saved_cursor = None THEN t
              ELSE [t EXCEPT !.cursor_x = t.saved_cursor[1][1],
                             !.cursor_y = t.saved_cursor[1][2]]
         [] final_byte = 110 ->
              IF params[1] = 6
              THEN [t EXCEPT !.response_queue = Append(@, cursor_report(t))]
              ELSE t
         [] OTHER -> t

\* Terminal::process_byte
process_byte(t, byte) ==
    LET normal(u) == [u EXCEPT !.parser_state = "normal"] IN
    CASE t.parser_state = "normal" ->
           CASE byte = ESC -> [t EXCEPT !.parser_state = "escape", !.esc_buffer = <<>>]
             [] byte = 8 -> [t EXCEPT !.cursor_x = SatSub(@, 1)]
             [] byte = 9 ->
                  LET x == (wrapping_add(t.cursor_x, 8) \div 8) * 8 IN
                  IF Overflows(t, t.cursor_x + 8) THEN Panic(t)
                  ELSE IF x >= t.width
                  THEN (IF Underflows(t, t.width) THEN Panic(t)
                        ELSE [t EXCEPT !.cursor_x = wrapping_sub(t.width, 1)])
                  ELSE [t EXCEPT !.cursor_x = x]
             [] byte = 10 -> newline(t)
             [] byte = 13 -> [t EXCEPT !.cursor_x = 0]
             [] (byte >= 32 /\ byte <= 126) \/ byte >= 128 -> put_char(t, byte)
             [] OTHER -> t
      [] t.parser_state = "escape" ->
           CASE byte = 91 -> [t EXCEPT !.parser_state = "csi", !.esc_buffer = <<>>]
             [] byte = 93 -> [t EXCEPT !.parser_state = "osc", !.esc_buffer = <<>>]
             [] byte = 55 ->
                  normal([t EXCEPT !.saved_cursor = Some(<<t.cursor_x, t.cursor_y>>)])
             [] byte = 56 ->
                  normal(IF t.saved_cursor = None THEN t
                         ELSE [t EXCEPT !.cursor_x = t.saved_cursor[1][1],
                                        !.cursor_y = t.saved_cursor[1][2]])
             [] byte = 68 -> normal(newline(t))
             [] byte = 69 -> normal(newline([t EXCEPT !.cursor_x = 0]))
             [] byte = 77 -> normal([t EXCEPT !.cursor_y = SatSub(@, 1)])
             [] byte = 99 -> normal(Terminal_reset(t))
             [] OTHER -> normal(t)
      [] t.parser_state = "csi" ->
           IF byte >= 64 /\ byte <= 126 THEN normal(execute_csi(t, byte))
           ELSE [t EXCEPT !.esc_buffer = Append(@, byte)]
      [] OTHER ->
           IF byte = 7 \/ byte = ESC THEN normal(t)
           ELSE [t EXCEPT !.esc_buffer = Append(@, byte)]

\* the loops of Terminal::process_data; a panic ends them
RECURSIVE process_bytes(_, _, _)
process_bytes(t, data, i) ==
    IF i > Len(data) \/ t.panicked THEN t
    ELSE process_bytes(
           IF t.terminal_type = "raw"
           THEN (IF data[i] >= 32 /\ data[i] < 127 THEN put_char(t, data[i])
                 ELSE IF data[i] = 10 THEN newline(t)
                 ELSE IF data[i] = 13 THEN [t EXCEPT !.cursor_x = 0]
                 ELSE t)
           ELSE process_byte(t, data[i]),
           data, i + 1)

\* Terminal::process_data
process_data(t, data) ==
    LET t1 == process_bytes(t, data, 1) IN
    IF t1.panicked THEN t1 ELSE [t1 EXCEPT !.dirty = TRUE]

(***************************************************************************)
(* src/server.rs : filter_telnet_commands                                  *)
(***************************************************************************)
IAC == 255
WILL == 251
WONT == 252
DO == 253
DONT == 254
SB == 250
SE == 240

\* the inner while loop of the SB arm: the index after the first IAC SE at
\* or after i, or the end of data when there is none (indices count from 1)
RECURSIVE sb_end(_, _)
sb_end(data, i) ==
    IF i > Len(data) THEN i
    ELSE IF data[i] = IAC /\ i + 1 <= Len(data) /\ data[i + 1] = SE THEN i + 2
    ELSE sb_end(data, i + 1)

\* the match on data[i + 1]: where the loop goes on and what it pushes
command_step(data, i) ==
    CASE data[i + 1] \in {WILL, WONT, DO, DONT} -> [i |-> i + 3, push |-> <<>>]
      [] data[i + 1] = SB -> [i |-> sb_end(data, i + 2), push |-> <<>>]
      [] data[i + 1] = IAC -> [i |-> i + 2, push |-> <<255>>]
      [] OTHER -> [i |-> i + 2, push |-> <<>>]

\* a loop body that drops an IAC that is the last byte of data
filter_step_no_lone_iac(data, i) ==
    IF data[i] = IAC
    THEN IF i + 1 <= Len(data) THEN command_step(data, i)
         ELSE [i |-> i + 1, push |-> <<>>]
    ELSE [i |-> i + 1, push |-> <<data[i]>>]

\* one iteration of the outer while loop: an IAC that is the last byte of
\* data is pushed like any other byte
filter_step(data, i) ==
    IF data[i] = IAC /\ i + 1 <= Len(data) THEN command_step(data, i)
    ELSE [i |-> i + 1, push |-> <<data[i]>>]

RECURSIVE filter_from(_, _, _)
filter_from(data, i, filtered) ==
    IF i > Len(data) THEN filtered
    ELSE LET s == filter_step(data, i) IN filter_from(data, s.i, filtered \o s.push)

filter_telnet_commands(data) == filter_from(data, 1, <<>>)

(***************************************************************************)
(* src/server.rs : ClientSession                                           *)
(***************************************************************************)
\* InteractionState::default
InteractionState_default ==
    [dragging |-> None, resizing |-> None, last_title_bar_click |-> None]

\* ClientSession::new
ClientSession_new(id, cols, rows) ==
    [id |-> id, windows |-> WM_new(cols, rows), renderer |-> Renderer_new(cols, rows),
     interaction |-> InteractionState_default,
     display_shares_from |-> <<>>, display_shares_to |-> <<>>,
     console_open |-> FALSE, console_input |-> <<>>,
     terminals |-> EmptyMap, focused_window |-> None]

\* the part of Flush and auto_flush after the terminal sync: composite,
\* render, mark the display and the windows clean
flush_display(sess, force_full) ==
    LET wm == composite(sess.windows) IN
    [sess EXCEPT !.renderer = render(sess.renderer, wm.display, force_full),
                 !.windows = WM_mark_all_clean(
                     [wm EXCEPT !.display = Grid_mark_all_clean(wm.display)])]

\* ClientSession::auto_flush
auto_flush(sess) == IF WM_is_dirty(sess.windows) THEN flush_display(sess, FALSE) ELSE sess

\* process_command, CreateWindow
cmd_create_window(sess, c) ==
    LET actual_y == IF c.invert THEN c.y ELSE Max(c.y, 1)
        wm == create_window(sess.windows, c.id, c.x, actual_y, c.width, c.height)
        w1 == set_border(wm.windows[c.id], c.border)
        w2 == IF c.title # None THEN set_title(w1, c.title[1]) ELSE w1
        w3 == [w2 EXCEPT !.closable = c.closable, !.resizable = c.resizable,
                         !.draggable = c.draggable, !.min_width = c.min_width,
                         !.min_height = c.min_height, !.invert = c.invert]
    IN [sess EXCEPT !.windows = [wm EXCEPT !.windows[c.id] = w3]]

\* process_command, UpdateWindow
cmd_update_window(sess, c) ==
    IF c.id \notin DOMAIN sess.windows.windows THEN sess
    ELSE LET w0 == sess.windows.windows[c.id]
             w1 == IF c.x # None THEN [w0 EXCEPT !.x = c.x[1], !.dirty = TRUE] ELSE w0
             w2 == IF c.y # None
                   THEN [w1 EXCEPT !.y = IF w1.invert THEN c.y[1] ELSE Max(c.y[1], 1),
                                   !.dirty = TRUE]
                   ELSE w1
             w3 == IF c.width # None /\ c.height # None
                   THEN Window_resize(w2, c.width[1], c.height[1]) ELSE w2
             w4 == IF c.visible # None
                   THEN (IF c.visible[1] THEN Window_show(w3) ELSE Window_hide(w3)) ELSE w3
             w5 == IF c.title # None THEN set_title(w4, c.title[1]) ELSE w4
             w6 == IF c.z_index # None THEN [w5 EXCEPT !.z_index = c.z_index[1]] ELSE w5
         IN [sess EXCEPT !.windows.windows[c.id] = w6]

\* ClientSession::process_command: the session after the command (the
\* Response goes back to nobody: the router discards it).  A command is a
\* record whose type field names the variant.
process_command(sess, c) ==
    LET has(id) == id \in DOMAIN sess.windows.windows IN
    CASE c.type = "init" ->
           LET cols == IF c.cols = None THEN 80 ELSE c.cols[1]
               rows == IF c.rows = None THEN 24 ELSE c.rows[1]
           IN [sess EXCEPT !.windows = WM_resize(sess.windows, cols, rows),
                           !.renderer = Renderer_reset(Renderer_new(cols, rows))]
      [] c.type \in {"clear", "clear_background"} ->
           [sess EXCEPT !.windows.background = Grid_clear(@)]
      [] c.type = "reset" ->
           LET wm == clear_all_windows(sess.windows) IN
           [sess EXCEPT !.windows = [wm EXCEPT !.background = Grid_clear(@)]]
      [] c.type = "create_window" -> cmd_create_window(sess, c)
      [] c.type = "remove_window" ->
           [sess EXCEPT !.windows = WM_remove(sess.windows, c.id)]
      [] c.type = "update_window" -> cmd_update_window(sess, c)
      [] c.type = "set_cell" ->
           IF has(c.window)
           THEN [sess EXCEPT !.windows.windows[c.window] =
                    Window_set(@, c.x, c.y, c.char, Color_from(c.fg), Color_from(c.bg))]
           ELSE sess
      [] c.type = "print" ->
           IF has(c.window)
           THEN [sess EXCEPT !.windows.windows[c.window] =
                    Window_print(@, c.x, c.y, c.text, Color_from(c.fg), Color_from(c.bg))]
           ELSE sess
      [] c.type = "clear_window" ->
           IF has(c.id) THEN [sess EXCEPT !.windows.windows[c.id] = Window_clear(@)] ELSE sess
      [] c.type = "fill" ->
           IF has(c.window)
           THEN [sess EXCEPT !.windows.windows[c.window] =
                    Window_fill(@, c.x, c.y, c.width, c.height, c.char,
                                Color_from(c.fg), Color_from(c.bg))]
           ELSE sess
      [] c.type = "set_direct" ->
           [sess EXCEPT !.windows.background =
               Grid_set(@, c.x, c.y, c.char, Color_from(c.fg), Color_from(c.bg), Attrs_default)]
      [] c.type = "print_direct" ->
           [sess EXCEPT !.windows.background =
               Grid_write_str(@, c.x, c.y, c.text, Color_from(c.fg), Color_from(c.bg),
                              Attrs_default)]
      [] c.type = "flush" -> flush_display(sess, c.force_full)
      [] c.type = "bring_to_front" ->
           [sess EXCEPT !.windows = bring_to_front(sess.windows, c.id)]
      [] c.type = "send_to_back" ->
           [sess EXCEPT !.windows = send_to_back(sess.windows, c.id)]
      [] OTHER -> sess

(***************************************************************************)
(* src/server.rs : ClientSession::handle_mouse_event.  The result is the   *)
(* session, the window events to emit and the forward_to_game flag.        *)
(***************************************************************************)
MouseResult(sess, evs, forward) == [sess |-> sess, events |-> evs, forward |-> forward]

WindowCloseRequested(id) == [type |-> "window_close_requested", id |-> id]
WindowMaximizeRequested(id) == [type |-> "window_maximize_requested", id |-> id]
WindowFocused(id) == [type |-> "window_focused", id |-> id]
WindowMoved(id, x, y) == [type |-> "window_moved", id |-> id, x |-> x, y |-> y]
WindowResized(id, width, height) ==
    [type |-> "window_resized", id |-> id, width |-> width, height |-> height]

DoubleClickMs == 500

\* MouseEventType::Press
mouse_press(sess, x, y, button, now_ms) ==
    LET top == window_at(sess.windows, x, y) IN
    IF button # "left" \/ top = None THEN MouseResult(sess, <<>>, TRUE)
    ELSE LET top_id == top[1]
             win == sess.windows.windows[top_id]
             front == bring_to_front(sess.windows, top_id)
         IN IF Window_hit_close_button(win, x, y)
            THEN MouseResult(sess, <<WindowCloseRequested(top_id)>>, FALSE)
            ELSE IF Window_hit_resize_handle(win, x, y)
            THEN MouseResult(
                   [sess EXCEPT !.interaction.resizing =
                        Some([window_id |-> top_id, original_width |-> win.width,
                              original_height |-> win.height, start_x |-> x, start_y |-> y]),
                      !.windows = front],
                   <<>>, FALSE)
            ELSE IF Window_hit_title_bar(win, x, y)
            THEN LET last_click == sess.interaction.last_title_bar_click
                     is_double_click ==
                         IF last_click # None
                         THEN last_click[1].window_id = top_id
                              /\ now_ms - last_click[1].time_ms < DoubleClickMs
                         ELSE FALSE
                 IN IF is_double_click
                    THEN MouseResult(
                           [sess EXCEPT !.interaction.last_title_bar_click = None,
                                        !.windows = front],
                           <<WindowMaximizeRequested(top_id)>>, FALSE)
                    ELSE MouseResult(
                           [sess EXCEPT
                              !.interaction.last_title_bar_click =
                                  Some([window_id |-> top_id, time_ms |-> now_ms]),
                              !.interaction.dragging =
                                  Some([window_id |-> top_id, offset_x |-> x - win.x,
                                        offset_y |-> y - win.y]),
                              !.windows = front],
                           <<>>, FALSE)
            ELSE MouseResult([sess EXCEPT !.windows = front,
                                          !.focused_window = Some(top_id)],
                             <<WindowFocused(top_id)>>, TRUE)

\* MouseEventType::Release
mouse_release(sess) ==
    LET drag == sess.interaction.dragging
        resize == sess.interaction.resizing
        ws == sess.windows.windows
        moved == IF drag # None /\ drag[1].window_id \in DOMAIN ws
                 THEN <<WindowMoved(drag[1].window_id, ws[drag[1].window_id].x,
                                    ws[drag[1].window_id].y)>>
                 ELSE <<>>
        resized == IF resize # None /\ resize[1].window_id \in DOMAIN ws
                   THEN <<WindowResized(resize[1].window_id, ws[resize[1].window_id].width,
                                        ws[resize[1].window_id].height)>>
                   ELSE <<>>
    IN MouseResult([sess EXCEPT !.interaction.dragging = None,
                                !.interaction.resizing = None],
                   moved \o resized, drag = None /\ resize = None)

\* the position a dragged window is given
drag_position_unclamped(win, drag, x, y, cols, rows) == <<x - drag.offset_x, y - drag.offset_y>>
drag_position(win, drag, x, y, cols, rows) ==
    LET new_x == Max(x - drag.offset_x, 0)
        new_y == Max(y - drag.offset_y, 1)
        max_x == SatSub(cols, win.width)
        max_y == SatSub(rows, win.height)
    IN <<Min(new_x, max_x), Min(new_y, max_y)>>

\* the size a resized window is given
resize_size(win, resize, x, y, cols, rows) ==
    LET dx == x - resize.start_x
        dy == y - resize.start_y
        new_width == Max(resize.original_width + dx, win.min_width)
        new_height == Max(resize.original_height + dy, win.min_height)
        max_width == SatSub(cols, win.x)
        max_height == SatSub(rows, win.y)
    IN <<Min(new_width, max_width), Min(new_height, max_height)>>

\* MouseEventType::Drag and MouseEventType::Move (the two arms are the same
\* code): the drag is applied first, then the resize
mouse_motion(sess, x, y) ==
    LET cols == sess.windows.cols
        rows == sess.windows.rows
        drag == sess.interaction.dragging
        resize == sess.interaction.resizing
        s1 == IF drag # None /\ drag[1].window_id \in DOMAIN sess.windows.windows
              THEN LET p == drag_position(sess.windows.windows[drag[1].window_id],
                                          drag[1], x, y, cols, rows)
                   IN [sess EXCEPT !.windows.windows[drag[1].window_id] =
                          [@ EXCEPT !.x = p[1], !.y = p[2], !.dirty = TRUE]]
              ELSE sess
        s2 == IF resize # None /\ resize[1].window_id \in DOMAIN s1.windows.windows
              THEN LET win == s1.windows.windows[resize[1].window_id]
                       n == resize_size(win, resize[1], x, y, cols, rows)
                   IN IF n[1] # win.width \/ n[2] # win.height
                      THEN [s1 EXCEPT !.windows.windows[resize[1].window_id] =
                               Window_resize(@, n[1], n[2])]
                      ELSE s1
              ELSE s1
    IN MouseResult(s2, <<>>, drag = None /\ resize = None)

\* ClientSession::handle_mouse_event
handle_mouse_event(sess, x, y, button, event_type, now_ms) ==
    CASE event_type = "press" -> mouse_press(sess, x, y, button, now_ms)
      [] event_type = "release" -> mouse_release(sess)
      [] OTHER -> mouse_motion(sess, x, y)

(***************************************************************************)
(* src/server.rs : the handlers that act on the session table              *)
(***************************************************************************)
NoInput == [op |-> "none"]

\* no client has connected and no handler has run
SessionsIdle ==
    /\ sessions = EmptyMap
    /\ last = NoInput
    /\ now = 0
    /\ steps = 0

\* parse_targeted_command: the session field of a line is absent, a string,
\* or some other JSON value; only a string is kept
TargetAbsent == [kind |-> "absent"]
TargetString(s) == [kind |-> "string", value |-> s]
TargetOther == [kind |-> "other"]
target_session(target) == IF target.kind = "string" THEN Some(target.value) ELSE None

\* ClientSession::process_command, the Response it returns for the
\* session-level commands: an error when a window-scoped command names a
\* window the session does not have
Ok == [type |-> "ok"]
Error(message) == [type |-> "error", message |-> message]
command_response(sess, c) ==
    LET has(id) == id \in DOMAIN sess.windows.windows
        not_found(id) == Error(<<"Window not found", id>>)
    IN CASE c.type \in {"update_window", "clear_window"} ->
               IF has(c.id) THEN Ok ELSE not_found(c.id)
         [] c.type \in {"set_cell", "print", "fill"} ->
               IF has(c.window) THEN Ok ELSE not_found(c.window)
         [] OTHER -> Ok

\* handle_game_connection for a line that parse_targeted_command rejects:
\* the error is logged and the next line is read
DoParseError ==
    /\ last' = [op |-> "parse_error"]
    /\ steps' = steps + 1
    /\ UNCHANGED <<sessions, now, parserVars, serverVars>>

\* handle_game_connection, routing: the sessions a session-level command is
\* handed to
route_to_all(table, target) == DOMAIN table
route_targets(table, target) ==
    LET t == target_session(target) IN
    IF t = None \/ t = Some("*") THEN DOMAIN table
    ELSE IF t[1] \in DOMAIN table THEN {t[1]} ELSE {}

\* process_command: the arithmetic of the command leaves the range of its
\* type, which panics in a build with overflow checks
command_overflows(sess, c) ==
    \/ c.type = "bring_to_front" /\ front_overflows(sess.windows, c.id)
    \/ c.type = "send_to_back" /\ back_overflows(sess.windows, c.id)

\* handle_game_connection for one line holding a session-level command.
\* Flush first copies terminal screens into their windows; that copy is not
\* represented, so Flush is taken for sessions without terminals.
DoCommand(target, c) ==
    /\ (c.type = "flush" =>
          \A s \in route_targets(sessions, target) : DOMAIN sessions[s].terminals = {})
    /\ \E overflow_checks \in BOOLEAN :
         LET routed == route_targets(sessions, target)
             failing == {s \in routed : command_overflows(sessions[s], c)}
             panicked == overflow_checks /\ failing # {}
         IN /\ \E done \in (IF panicked THEN SUBSET (routed \ failing) ELSE {routed}) :
                 sessions' = [s \in DOMAIN sessions |->
                                 IF s \in done THEN process_command(sessions[s], c)
                                 ELSE sessions[s]]
            /\ last' = IF panicked
                       THEN [op |-> "command", target |-> target, cmd |-> c,
                             panicked |-> TRUE]
                       ELSE [op |-> "command", target |-> target, cmd |-> c]
    /\ steps' = steps + 1
    /\ UNCHANGED <<now, parserVars, serverVars>>

\* output_tx.send(output): the output is queued for the writer task of the
\* client; the send is lost when the receiver is gone
send_output(c, output) ==
    IF c.pc \notin {"returned", "ended"} /\ c.writer \in {"none", "running"}
    THEN [c EXCEPT !.output_rx = Append(@, output)] ELSE c

\* ClientSession::process_command, Flush: the bytes sent to the client
flush_output(sess, force_full) ==
    render_run(sess.renderer, composite(sess.windows).display, force_full).out

\* handle_game_connection for one line holding Flush, with the output each
\* session it is routed to sends to its client
DoFlush(target, force_full) ==
    LET c == [type |-> "flush", force_full |-> force_full]
        routed == route_targets(sessions, target)
    IN /\ \A s \in routed : DOMAIN sessions[s].terminals = {}
       /\ sessions' = [s \in DOMAIN sessions |->
                          IF s \in routed THEN process_command(sessions[s], c)
                          ELSE sessions[s]]
       /\ clients' = [a \in Addresses |->
                         IF session_id(a) \in routed
                         THEN send_output(clients[a],
                                          flush_output(sessions[session_id(a)], force_full))
                         ELSE clients[a]]
       /\ last' = [op |-> "flush", target |-> target, cmd |-> c]
       /\ steps' = steps + 1
       /\ UNCHANGED <<now, parserVars, shutdown_channels, event_tx, games, tasks>>

\* handle_game_connection, ResizeTerminal, the window part
resize_terminal_window(w, c) ==
    LET border_style == IF c.border = "none" THEN "none"
                        ELSE IF c.border = "double" THEN "double" ELSE "single"
        w1 == Window_resize([w EXCEPT !.x = c.x, !.y = Max(c.y, 1)], c.width, c.height)
        w2 == set_border(w1, border_style)
        w3 == IF c.title # None THEN set_title(w2, c.title[1])
              ELSE IF border_style # "none" THEN w2
              ELSE set_title(w2, <<>>)
    IN [w3 EXCEPT !.closable = c.closable, !.resizable = c.resizable,
                  !.draggable = c.draggable, !.dirty = TRUE]

\* handle_mouse_event: a left press on a window that is not on its close
\* button brings the window to the front, and max_z + 1 leaves the range of
\* i32; a build with overflow checks panics there, after the interaction
\* state was written
press_overflows(sess, x, y, button, event_type) ==
    LET top == window_at(sess.windows, x, y) IN
    /\ event_type = "press" /\ button = "left" /\ top # None
    /\ ~Window_hit_close_button(sess.windows.windows[top[1]], x, y)
    /\ front_overflows(sess.windows, top[1])

\* handle_client_connection for one mouse event of session sid, dt
\* milliseconds after the previous handler: handle_mouse_event, the window
\* events sent to the games, auto_flush, the raw event forwarded or not.
\* With the debug console open the event is dropped before this point.
DoMouse(sid, x, y, button, event_type, dt) ==
    /\ sid \in DOMAIN sessions
    /\ ~sessions[sid].console_open
    /\ \E overflow_checks \in BOOLEAN :
         LET sess == sessions[sid]
             r == handle_mouse_event(sess, x, y, button, event_type, now + dt)
             panicked == overflow_checks /\ press_overflows(sess, x, y, button, event_type)
         IN /\ sessions' = [sessions EXCEPT ![sid] =
                  IF panicked
                  THEN [r.sess EXCEPT !.windows = sess.windows,
                                      !.focused_window = sess.focused_window]
                  ELSE auto_flush(r.sess)]
            /\ last' = IF panicked
                       THEN [op |-> "mouse", sid |-> sid, x |-> x, y |-> y,
                             button |-> button, event_type |-> event_type,
                             events |-> <<>>, forward |-> FALSE, panicked |-> TRUE]
                       ELSE [op |-> "mouse", sid |-> sid, x |-> x, y |-> y,
                             button |-> button, event_type |-> event_type,
                             events |-> r.events, forward |-> r.forward]
    /\ now' = now + dt
    /\ steps' = steps + 1
    /\ UNCHANGED <<parserVars, serverVars>>

(***************************************************************************)
(* src/server.rs : the connection handlers, one action per step between    *)
(* two lock acquisitions or channel sends.  clients[a].pc names the step   *)
(* the handler of the connection from a runs next.                         *)
(***************************************************************************)
ClientConnect(s) == [type |-> "client_connect", session |-> s]
ClientDisconnect(s) == [type |-> "client_disconnect", session |-> s]
TerminalConnected(id) == [type |-> "terminal_connected", id |-> id]
TerminalDisconnected(id) == [type |-> "terminal_disconnected", id |-> id]
TerminalError(id) == [type |-> "terminal_error", id |-> id]
Shutdown == [type |-> "shutdown"]

Goto(a, pc) == clients' = [clients EXCEPT ![a].pc = pc]

\* Server::run, client accept loop: the handler task is spawned
ClientAccepted ==
    \E a \in Addresses :
        /\ clients[a].pc = "none"
        /\ Goto(a, "insert_channel")
        /\ UNCHANGED <<parserVars, sessionVars, shutdown_channels, event_tx, games, tasks>>

\* handle_client_connection: the shutdown channel is created and its sender
\* stored
InsertShutdownChannel ==
    \E a \in Addresses :
        /\ clients[a].pc = "insert_channel"
        /\ shutdown_channels' = shutdown_channels \cup {session_id(a)}
        /\ Goto(a, "announce")
        /\ UNCHANGED <<parserVars, sessionVars, event_tx, games, tasks>>

\* handle_client_connection: ClientConnect is sent on the broadcast channel
SendClientConnect ==
    \E a \in Addresses :
        /\ clients[a].pc = "announce"
        /\ event_tx' = Append(event_tx, ClientConnect(session_id(a)))
        /\ Goto(a, "insert_session")
        /\ UNCHANGED <<parserVars, sessionVars, shutdown_channels, games, tasks>>

\* handle_client_connection: the session is created and inserted
InsertSession ==
    \E a \in Addresses :
        /\ clients[a].pc = "insert_session"
        /\ sessions' = MapPut(sessions, session_id(a), ClientSession_new(session_id(a), 80, 24))
        /\ Goto(a, "negotiate")
        /\ UNCHANGED <<parserVars, last, now, steps, shutdown_channels, event_tx, games, tasks>>

\* handle_client_connection: the telnet negotiation is written to the
\* client socket; when the write fails the handler returns
TelnetNegotiation ==
    \E a \in Addresses :
        /\ clients[a].pc = "negotiate"
        /\ \E ok \in BOOLEAN : Goto(a, IF ok THEN "init" ELSE "returned")
        /\ UNCHANGED <<parserVars, sessionVars, shutdown_channels, event_tx, games, tasks>>

\* ClientSession::init
ClientSession_init(sess) == [sess EXCEPT !.renderer = Renderer_reset(@)]

\* handle_client_connection: the display of the session is initialised, the
\* writer task is spawned and the read loop entered
InitDisplay ==
    \E a \in Addresses :
        /\ clients[a].pc = "init"
        /\ sessions' = [s \in DOMAIN sessions |->
                           IF s = session_id(a) THEN ClientSession_init(sessions[s])
                           ELSE sessions[s]]
        /\ clients' = [clients EXCEPT ![a].pc = "loop", ![a].writer = "running",
                                      ![a].output_rx = Append(@, init_output)]
        /\ UNCHANGED <<parserVars, last, now, steps, shutdown_channels, event_tx, games, tasks>>

\* handle_client_connection, the select loop: it is left at end of stream,
\* on a read error, or when the shutdown receiver resolves
LeaveLoop ==
    \E a \in Addresses :
        /\ clients[a].pc = "loop"
        /\ \E reason \in {"eof", "read_error"} \cup
                         (IF clients[a].signalled THEN {"shutdown"} ELSE {}) :
             Goto(a, "disconnect")
        /\ UNCHANGED <<parserVars, sessionVars, shutdown_channels, event_tx, games, tasks>>

\* handle_client_connection, after the loop: ClientDisconnect is sent
SendClientDisconnect ==
    \E a \in Addresses :
        /\ clients[a].pc = "disconnect"
        /\ event_tx' = Append(event_tx, ClientDisconnect(session_id(a)))
        /\ Goto(a, "remove_session")
        /\ UNCHANGED <<parserVars, sessionVars, shutdown_channels, games, tasks>>

\* handle_client_connection, cleanup: the session is removed from the table
\* and dropped; a dropped TerminalHandle leaves its task alone
RemoveSession ==
    \E a \in Addresses :
        /\ clients[a].pc = "remove_session"
        /\ sessions' = MapRemove(sessions, session_id(a))
        /\ Goto(a, "remove_channel")
        /\ UNCHANGED <<parserVars, last, now, steps, shutdown_channels, event_tx, games, tasks>>

\* handle_client_connection, cleanup: the shutdown sender is removed, the
\* writer task aborted and the handler returns
RemoveShutdownChannel ==
    \E a \in Addresses :
        /\ clients[a].pc = "remove_channel"
        /\ shutdown_channels' = shutdown_channels \ {session_id(a)}
        /\ clients' = [clients EXCEPT ![a].pc = "ended",
                                      ![a].writer = IF @ = "running" THEN "aborted" ELSE @]
        /\ UNCHANGED <<parserVars, sessionVars, event_tx, games, tasks>>

\* Server::run, game accept loop: the receiver is subscribed, then the
\* handler task spawned; a receiver gets the responses sent after it
\* subscribed
GameAccepted ==
    \E g \in Games :
        /\ games[g].pc = "none"
        /\ games' = [games EXCEPT ![g] =
                        [pc |-> "enumerate", rx |-> Len(event_tx) + 1, written |-> {}]]
        /\ UNCHANGED <<parserVars, sessionVars, shutdown_channels, event_tx, clients, tasks>>

\* handle_game_connection: a ClientConnect is written to the game for every
\* id of the session table, then the writer task is spawned and the read
\* loop entered
GameEnumerate ==
    \E g \in Games :
        /\ games[g].pc = "enumerate"
        /\ games' = [games EXCEPT ![g].pc = "serving",
                                  ![g].written = @ \cup {ClientConnect(s) : s \in DOMAIN sessions}]
        /\ UNCHANGED <<parserVars, sessionVars, shutdown_channels, event_tx, clients, tasks>>

\* handle_game_connection, writer task: the next response of the receiver
\* is written to the game
GameReceive ==
    \E g \in Games :
        /\ games[g].pc = "serving"
        /\ games[g].rx <= Len(event_tx)
        /\ games' = [games EXCEPT ![g].written = @ \cup {event_tx[games[g].rx]},
                                  ![g].rx = @ + 1]
        /\ UNCHANGED <<parserVars, sessionVars, shutdown_channels, event_tx, clients, tasks>>

\* handle_game_connection: end of stream or read error on the game socket;
\* the writer task is aborted and the sessions stay
GameDisconnected ==
    \E g \in Games :
        /\ games[g].pc = "serving"
        /\ games' = [games EXCEPT ![g] = [pc |-> "none", rx |-> 0, written |-> {}]]
        /\ UNCHANGED <<parserVars, sessionVars, shutdown_channels, event_tx, clients, tasks>>

\* the client handlers whose shutdown receiver is alive
Receiving(a) == clients[a].pc \notin {"none", "insert_channel", "returned", "ended"}

\* ClientSession::process_command, Shutdown: the renderer's shutdown sequence
\* is sent on the session's output channel
send_shutdown(c) == send_output(c, shutdown_output)

\* handle_client_connection, writer task: the next output of the channel is
\* written to the client socket; a failed write ends the task
WriterWrites ==
    \E a \in Addresses :
        /\ clients[a].writer = "running"
        /\ clients[a].output_rx # <<>>
        /\ \E ok \in BOOLEAN :
             clients' = [clients EXCEPT
                 ![a].output_rx = Tail(@),
                 ![a].socket = IF ok THEN Append(@, Head(clients[a].output_rx)) ELSE @,
                 ![a].writer = IF ok THEN @ ELSE "finished"]
        /\ UNCHANGED <<parserVars, sessionVars, shutdown_channels, event_tx, games, tasks>>

\* handle_game_connection, Shutdown: the session processes the command
\* (output only), the sender is taken out of shutdown_channels and fired
DoShutdown(target) ==
    /\ LET t == target_session(target) IN
       IF t # None
       THEN /\ sessions' = [s \in DOMAIN sessions |->
                               IF s = t[1] THEN process_command(sessions[s], Shutdown)
                               ELSE sessions[s]]
            /\ shutdown_channels' = shutdown_channels \ {t[1]}
            /\ clients' = [a \in Addresses |->
                              LET c == IF session_id(a) = t[1] /\ t[1] \in DOMAIN sessions
                                       THEN send_shutdown(clients[a]) ELSE clients[a]
                              IN IF session_id(a) = t[1] /\ t[1] \in shutdown_channels
                                    /\ Receiving(a)
                                 THEN [c EXCEPT !.signalled = TRUE]
                                 ELSE c]
       ELSE UNCHANGED <<sessions, shutdown_channels, clients>>
    /\ last' = [op |-> "shutdown", target |-> target]
    /\ steps' = steps + 1
    /\ UNCHANGED <<now, parserVars, event_tx, games, tasks>>

\* Vec::contains
Vec_contains(v, x) == \E i \in 1..Len(v) : v[i] = x

\* handle_game_connection, ShareDisplay: the target's list first, then the
\* source's, each only when that session is in the table
share_display(ss, source, target) ==
    LET s1 == IF target \in DOMAIN ss /\ ~Vec_contains(ss[target].display_shares_from, source)
              THEN [ss EXCEPT ![target].display_shares_from = Append(@, source)]
              ELSE ss
    IN IF source \in DOMAIN s1 /\ ~Vec_contains(s1[source].display_shares_to, target)
       THEN [s1 EXCEPT ![source].display_shares_to = Append(@, target)]
       ELSE s1

\* handle_game_connection, UnshareDisplay
unshare_display(ss, source, target) ==
    LET s1 == IF target \in DOMAIN ss
              THEN [ss EXCEPT ![target].display_shares_from = Retain(@, source)]
              ELSE ss
    IN IF source \in DOMAIN s1
       THEN [s1 EXCEPT ![source].display_shares_to = Retain(@, target)]
       ELSE s1

DoShareDisplay(source, target) ==
    /\ sessions' = share_display(sessions, source, target)
    /\ last' = [op |-> "share_display", source |-> source, target |-> target]
    /\ steps' = steps + 1
    /\ UNCHANGED <<now, parserVars, serverVars>>

DoUnshareDisplay(source, target) ==
    /\ sessions' = unshare_display(sessions, source, target)
    /\ last' = [op |-> "unshare_display", source |-> source, target |-> target]
    /\ steps' = steps + 1
    /\ UNCHANGED <<now, parserVars, serverVars>>

(***************************************************************************)
(* src/server.rs : terminals.  A TerminalHandle is the index in tasks of   *)
(* the connection task it can abort and whose emulator and input channel   *)
(* it shares.  A task is the terminal id it reports under, its state, the  *)
(* width and height create_terminal_handle was called with, the emulator,  *)
(* the state of the reader's telnet parser, the data the reader holds the  *)
(* emulator's write lock for, and what has been sent on the two channels   *)
(* of the writer.                                                          *)
(***************************************************************************)
\* TerminalType::from_str
TerminalType_from_str(s) == IF s \in {"vt100", "xterm", "raw"} THEN s ELSE "ansi"

\* create_terminal_handle: the emulator, the channels, the task spawned
Task_new(id, width, height, terminal_type, overflow_checks) ==
    [id |-> id, state |-> "connecting", width |-> width, height |-> height,
     terminal |-> Terminal_new(width, height, terminal_type, overflow_checks),
     telnet_state |-> "normal", telnet_cmd |-> 0, subneg_buffer |-> <<>>,
     filtered |-> <<>>, locked |-> FALSE, input_rx |-> <<>>, telnet_rx |-> <<>>]

\* AbortHandle::abort: a task that has not finished is cancelled, and a
\* write lock it held is released
abort(ts, n) ==
    IF ts[n].state \in {"connecting", "running"}
    THEN [ts EXCEPT ![n].state = "aborted", ![n].locked = FALSE] ELSE ts

\* IAC SB NAWS width_hi width_lo height_hi height_lo IAC SE, width and
\* height cast to u16
naws(width, height) ==
    LET w == width % 65536
        h == height % 65536
    IN <<IAC, SB, 31, w \div 256, w % 256, h \div 256, h % 256, IAC, SE>>

\* mpsc::Sender::try_send on the input channel of task k: refused when the
\* receiver is gone
try_send(k, data) ==
    IF k.state = "finished" THEN k ELSE [k EXCEPT !.input_rx = Append(@, data)]

\* handle_game_connection, CreateTerminal: the task is spawned, the window
\* created, the handle stored under the terminal id
create_terminal(sess, c, n) ==
    LET border_style == IF c.border = "none" THEN "none"
                        ELSE IF c.border = "double" THEN "double" ELSE "single"
        handle == [task |-> n]
        wm == create_window(sess.windows, c.id, c.x, Max(c.y, 1), c.width, c.height)
        w1 == set_border(wm.windows[c.id], border_style)
        w2 == IF c.title # None THEN set_title(w1, c.title[1])
              ELSE IF border_style # "none"
              THEN set_title(w1, c.host \o <<58>> \o Digits(c.port))
              ELSE w1
        w3 == [w2 EXCEPT !.closable = c.closable, !.resizable = c.resizable,
                         !.draggable = (border_style # "none")]
    IN [sess EXCEPT !.windows = [wm EXCEPT !.windows[c.id] = w3],
                    !.terminals = MapPut(@, c.id, handle),
                    !.focused_window = Some(c.id)]

\* handle_game_connection, CreateTerminal: the emulator has the size of the
\* window's content, and its task is spawned
DoCreateTerminal(target, c) ==
    /\ LET t == target_session(target) IN
       IF t # None /\ t[1] \in DOMAIN sessions
       THEN LET content_width == IF c.border = "none" THEN c.width
                                 ELSE SatSub(c.width, 2)
                content_height == IF c.border = "none" THEN c.height
                                  ELSE SatSub(c.height, 2)
            IN /\ \E overflow_checks \in BOOLEAN :
                    tasks' = Append(tasks, Task_new(c.id, content_width, content_height,
                                                    TerminalType_from_str(c.terminal_type),
                                                    overflow_checks))
               /\ sessions' = [sessions EXCEPT ![t[1]] =
                                  create_terminal(@, c, Len(tasks) + 1)]
       ELSE UNCHANGED <<sessions, tasks>>
    /\ last' = [op |-> "create_terminal", target |-> target, cmd |-> c]
    /\ steps' = steps + 1
    /\ UNCHANGED <<now, parserVars, shutdown_channels, event_tx, clients, games>>

\* handle_game_connection, ResizeTerminal: the emulator is resized when its
\* write lock is free (try_write), the new size is sent upstream when the
\* input channel takes it (try_send), then the window is updated.  A panic
\* of Terminal::resize ends the handler before the window is touched.
DoResizeTerminal(target, c) ==
    /\ LET t == target_session(target) IN
       IF t # None /\ t[1] \in DOMAIN sessions
       THEN LET sess == sessions[t[1]]
                border_style == IF c.border = "none" THEN "none"
                                ELSE IF c.border = "double" THEN "double" ELSE "single"
                cs == content_size(c.width, c.height, border_style)
                has == c.id \in DOMAIN sess.terminals
                n == IF has THEN sess.terminals[c.id].task ELSE 0
                resized == IF has /\ ~tasks[n].locked
                           THEN Terminal_resize(tasks[n].terminal, cs[1], cs[2])
                           ELSE tasks[n].terminal
                panicked == has /\ resized.panicked
            IN /\ tasks' = IF ~has THEN tasks
                           ELSE IF panicked
                           THEN [tasks EXCEPT ![n].terminal = Unwound(resized)]
                           ELSE [tasks EXCEPT ![n] =
                                    try_send([@ EXCEPT !.terminal = resized],
                                             naws(cs[1], cs[2]))]
               /\ sessions' = IF c.id \in DOMAIN sess.windows.windows /\ ~panicked
                              THEN [sessions EXCEPT ![t[1]].windows.windows[c.id] =
                                       resize_terminal_window(@, c)]
                              ELSE sessions
               /\ last' = [op |-> "resize_terminal", target |-> target, cmd |-> c,
                           panicked |-> panicked]
       ELSE /\ UNCHANGED <<sessions, tasks>>
            /\ last' = [op |-> "resize_terminal", target |-> target, cmd |-> c,
                        panicked |-> FALSE]
    /\ steps' = steps + 1
    /\ UNCHANGED <<now, parserVars, shutdown_channels, event_tx, clients, games>>

\* ClientSession::close_terminal, the session part
close_terminal(sess, id) ==
    IF id \in DOMAIN sess.terminals
    THEN [sess EXCEPT !.terminals = MapRemove(@, id),
                      !.windows = WM_remove(@, id)]
    ELSE sess

\* handle_game_connection, CloseTerminal: close_terminal aborts the task of
\* the handle it removes
DoCloseTerminal(target, id) ==
    /\ LET t == target_session(target) IN
       IF t # None /\ t[1] \in DOMAIN sessions
       THEN /\ tasks' = IF id \in DOMAIN sessions[t[1]].terminals
                        THEN abort(tasks, sessions[t[1]].terminals[id].task)
                        ELSE tasks
            /\ sessions' = [sessions EXCEPT ![t[1]] = close_terminal(@, id)]
       ELSE UNCHANGED <<sessions, tasks>>
    /\ last' = [op |-> "close_terminal", target |-> target, id |-> id]
    /\ steps' = steps + 1
    /\ UNCHANGED <<now, parserVars, shutdown_channels, event_tx, clients, games>>

\* create_terminal_handle, the spawned task: the connection to the upstream
\* host succeeds or fails
TaskConnects ==
    \E n \in 1..Len(tasks) :
        /\ tasks[n].state = "connecting"
        /\ \E ok \in BOOLEAN :
             /\ tasks' = [tasks EXCEPT ![n].state = IF ok THEN "running" ELSE "finished"]
             /\ event_tx' = Append(event_tx, IF ok THEN TerminalConnected(tasks[n].id)
                                             ELSE TerminalError(tasks[n].id))
        /\ UNCHANGED <<parserVars, sessionVars, shutdown_channels, clients, games>>

\* create_terminal_handle, the spawned task: the upstream host closes the
\* connection or the read fails, and the task finishes
TaskReadEnds ==
    \E n \in 1..Len(tasks) :
        /\ tasks[n].state = "running"
        /\ ~tasks[n].locked
        /\ tasks' = [tasks EXCEPT ![n].state = "finished"]
        /\ event_tx' = Append(event_tx, TerminalDisconnected(tasks[n].id))
        /\ UNCHANGED <<parserVars, sessionVars, shutdown_channels, clients, games>>

\* Terminal::process_data called on the emulator of task n, the response
\* queue left as it is.  A panic ends the task that made the call.
DoProcessData(n, data) ==
    /\ n \in 1..Len(tasks)
    /\ tasks[n].state \in {"connecting", "running"}
    /\ LET t1 == process_data(tasks[n].terminal, data) IN
       tasks' = [tasks EXCEPT ![n].terminal = Unwound(t1),
                              ![n].state = IF t1.panicked THEN "panicked" ELSE @]
    /\ last' = [op |-> "process_data", task |-> n, data |-> data]
    /\ steps' = steps + 1
    /\ UNCHANGED <<now, sessions, parserVars, shutdown_channels, event_tx, clients, games>>

\* Terminal::resize called on the emulator of task n
DoResize(n, new_width, new_height) ==
    /\ n \in 1..Len(tasks)
    /\ tasks[n].state \in {"connecting", "running"}
    /\ LET t1 == Terminal_resize(tasks[n].terminal, new_width, new_height) IN
       tasks' = [tasks EXCEPT ![n].terminal = Unwound(t1),
                              ![n].state = IF t1.panicked THEN "panicked" ELSE @]
    /\ last' = [op |-> "resize", task |-> n, width |-> new_width, height |-> new_height]
    /\ steps' = steps + 1
    /\ UNCHANGED <<now, sessions, parserVars, shutdown_channels, event_tx, clients, games>>

\* telnet_tx.send(data).await by the reader of task k
telnet_send(k, data) == [k EXCEPT !.telnet_rx = Append(@, data)]

\* create_terminal_handle, the reader: one byte through the telnet parser.
\* The window size it sends is the width and height the task was created
\* with.
reader_byte(k, byte) ==
    CASE k.telnet_state = "normal" ->
           IF byte = IAC THEN [k EXCEPT !.telnet_state = "iac"]
           ELSE [k EXCEPT !.filtered = Append(@, byte)]
      [] k.telnet_state = "iac" ->
           CASE byte = IAC -> [k EXCEPT !.filtered = Append(@, IAC),
                                        !.telnet_state = "normal"]
             [] byte = SB -> [k EXCEPT !.telnet_state = "subneg", !.subneg_buffer = <<>>]
             [] byte \in {WILL, WONT, DO, DONT} ->
                  [k EXCEPT !.telnet_cmd = byte, !.telnet_state = "option"]
             [] OTHER -> [k EXCEPT !.telnet_state = "normal"]
      [] k.telnet_state = "option" ->
           LET k1 == [k EXCEPT !.telnet_state = "normal"] IN
           CASE k.telnet_cmd = DO /\ byte = 24 -> telnet_send(k1, <<IAC, WILL, 24>>)
             [] k.telnet_cmd = DO /\ byte = 31 ->
                  telnet_send(telnet_send(k1, <<IAC, WILL, 31>>), naws(k.width, k.height))
             [] OTHER -> k1
      [] k.telnet_state = "subneg" ->
           IF byte = IAC THEN [k EXCEPT !.telnet_state = "subneg_iac"]
           ELSE [k EXCEPT !.subneg_buffer = Append(@, byte)]
      [] OTHER ->
           CASE byte = SE ->
                  LET k1 == [k EXCEPT !.telnet_state = "normal"]
                      b == k.subneg_buffer
                  IN IF Len(b) > 1 /\ b[1] = 24 /\ b[2] = 1
                     THEN telnet_send(k1, <<IAC, SB, 24, 0, 65, 78, 83, 73, IAC, SE>>)
                     ELSE k1
             [] byte = IAC -> [k EXCEPT !.subneg_buffer = Append(@, IAC)]
             [] OTHER -> [k EXCEPT !.subneg_buffer = Append(@, byte),
                                   !.telnet_state = "subneg"]

\* the reader's loop over the bytes of one read
RECURSIVE reader_bytes(_, _, _)
reader_bytes(k, data, i) ==
    IF i > Len(data) THEN k ELSE reader_bytes(reader_byte(k, data[i]), data, i + 1)

\* the responses of the emulator sent one after the other
RECURSIVE drain_responses(_, _)
drain_responses(k, queue) ==
    IF queue = <<>> THEN k ELSE drain_responses(telnet_send(k, Head(queue)), Tail(queue))

\* create_terminal_handle, the reader: a read of the upstream socket returns
\* data; the telnet parser answers the negotiation and, when bytes for the
\* emulator are left, the reader takes the emulator's write lock
DoTaskRead(n, data) ==
    /\ n \in 1..Len(tasks)
    /\ tasks[n].state = "running"
    /\ ~tasks[n].locked
    /\ LET k == reader_bytes([tasks[n] EXCEPT !.filtered = <<>>], data, 1) IN
       tasks' = [tasks EXCEPT ![n] = [k EXCEPT !.locked = (k.filtered # <<>>)]]
    /\ last' = [op |-> "read", task |-> n, data |-> data]
    /\ steps' = steps + 1
    /\ UNCHANGED <<now, sessions, parserVars, shutdown_channels, event_tx, clients, games>>

\* create_terminal_handle, the reader holding the write lock: process_data,
\* the response queue drained into the writer's channel, the lock released.
\* A panic of the emulator ends the task and releases the lock.
TaskProcess ==
    \E n \in 1..Len(tasks) :
        /\ tasks[n].state = "running"
        /\ tasks[n].locked
        /\ LET t1 == process_data(tasks[n].terminal, tasks[n].filtered)
               k1 == [tasks[n] EXCEPT !.filtered = <<>>, !.locked = FALSE]
           IN tasks' = [tasks EXCEPT ![n] =
                 IF t1.panicked
                 THEN [k1 EXCEPT !.state = "panicked", !.terminal = Unwound(t1)]
                 ELSE drain_responses([k1 EXCEPT !.terminal =
                                          [t1 EXCEPT !.response_queue = <<>>]],
                                      t1.response_queue)]
        /\ UNCHANGED <<parserVars, sessionVars, shutdown_channels, event_tx, clients, games>>

CreateTerminal(id, x, y, width, height, border) ==
    [type |-> "create_terminal", id |-> id, host |-> <<98, 98, 115>>, port |-> 23,
     x |-> x, y |-> y, width |-> width, height |-> height, terminal_type |-> "ansi",
     border |-> border, title |-> None, closable |-> TRUE, resizable |-> TRUE]

(***************************************************************************)
(* The commands of a game: constructors with the serde defaults of         *)
(* src/protocol.rs                                                         *)
(***************************************************************************)
InitCmd(cols, rows) == [type |-> "init", cols |-> Some(cols), rows |-> Some(rows)]
CreateWindow(id, x, y, width, height, border) ==
    [type |-> "create_window", id |-> id, x |-> x, y |-> y, width |-> width,
     height |-> height, border |-> border, title |-> None, closable |-> TRUE,
     resizable |-> TRUE, draggable |-> TRUE, min_width |-> 10, min_height |-> 5,
     invert |-> FALSE]
UpdateWindow(id) ==
    [type |-> "update_window", id |-> id, x |-> None, y |-> None, width |-> None,
     height |-> None, visible |-> None, title |-> None, z_index |-> None]
RemoveWindow(id) == [type |-> "remove_window", id |-> id]
BringToFront(id) == [type |-> "bring_to_front", id |-> id]
SendToBack(id) == [type |-> "send_to_back", id |-> id]
Reset == [type |-> "reset"]
Flush == [type |-> "flush", force_full |-> FALSE]
ResizeTerminal(id, x, y, width, height, border) ==
    [type |-> "resize_terminal", id |-> id, x |-> x, y |-> y, width |-> width,
     height |-> height, border |-> border, title |-> None, closable |-> TRUE,
     resizable |-> TRUE, draggable |-> TRUE]

(***************************************************************************)
(* One session driven by window commands and by the mouse                  *)
(***************************************************************************)
MaxWMSteps == 3
WMCols == 12
WMRows == 8

\* the session of a connected client after its game sent init
WMInit ==
    /\ ParserIdle
    /\ sessions = [s \in {S1} |->
                     process_command(ClientSession_new(S1, 80, 24), InitCmd(WMCols, WMRows))]
    /\ last = NoInput
    /\ now = 0
    /\ steps = 0
    /\ ConnectionsSettled

WMCommands ==
    {CreateWindow(id, 1, 1, d[1], d[2], b) :
        id \in {"a", "b"}, d \in {<<1, 1>>, <<6, 4>>}, b \in {"none", "single"}}
    \cup {[CreateWindow("a", 1, 1, 6, 4, "double") EXCEPT !.min_width = 2, !.min_height = 2]}
    \cup {RemoveWindow("a"), Reset}
    \cup {[UpdateWindow(id) EXCEPT !.z_index = Some(5)] : id \in {"a", "b"}}
    \cup {[UpdateWindow("a") EXCEPT !.width = Some(8), !.height = Some(0)]}
    \cup {BringToFront(id) : id \in {"a", "b"}}
    \cup {SendToBack(id) : id \in {"a", "b"}}

WMResizes ==
    {ResizeTerminal("a", 2, 0, 5, 4, "none"), ResizeTerminal("a", 2, 2, 1, 5, "rounded")}

WMCommand ==
    /\ steps < MaxWMSteps
    /\ \E c \in WMCommands : DoCommand(TargetString(S1), c)

WMResizeTerminal ==
    /\ steps < MaxWMSteps
    /\ \E c \in WMResizes : DoResizeTerminal(TargetString(S1), c)

\* the resize handle of a 6x4 window at (1,1) is at (6,4)
WMMouse ==
    /\ steps < MaxWMSteps
    /\ \E p \in {<<6, 4>>, <<3, 2>>, <<11, 7>>}, e \in {"press", "drag", "release"} :
         DoMouse(S1, p[1], p[2], "left", e, 100)

WMNext == WMCommand \/ WMResizeTerminal \/ WMMouse

SpecWM == WMInit /\ [][WMNext]_vars

WMs == {sessions[s].windows : s \in DOMAIN sessions}

\* C2: z_order holds every id of windows exactly once and no other id, and
\* the z_index values read along z_order never decrease.
C2_ZOrderSorted ==
    \A wm \in WMs :
        /\ Len(wm.z_order) = Cardinality(DOMAIN wm.windows)
        /\ {wm.z_order[i] : i \in 1..Len(wm.z_order)} = DOMAIN wm.windows
        /\ \A i \in 1..(Len(wm.z_order) - 1) :
               wm.windows[wm.z_order[i]].z_index <= wm.windows[wm.z_order[i + 1]].z_index

Bordered == {w \in UNION {{wm.windows[i] : i \in DOMAIN wm.windows} : wm \in WMs} :
                 has_border(w.border)}

\* C4 as stated: every bordered window has content.cols + 2 = width and
\* content.rows + 2 = height.
C4_ContentPlusTwo ==
    \A w \in Bordered : w.content.cols + 2 = w.width /\ w.content.rows + 2 = w.height

\* C4: every bordered window has content.cols = max(width - 2, 0) and
\* content.rows = max(height - 2, 0), so content.cols + 2 = width exactly
\* when width >= 2 and content.rows + 2 = height exactly when height >= 2;
\* a width or height of 0 or 1 leaves a content of 0 columns or rows.
C4_ContentSize ==
    \A w \in Bordered :
        /\ w.content.cols = Max(w.width - 2, 0)
        /\ w.content.rows = Max(w.height - 2, 0)
        /\ Len(w.content.cells) = w.content.cols * w.content.rows

\* ResizeTerminal has just given a bordered window a width of 1 and a
\* height of 5: no content column, three content rows
C4_Witness ==
    /\ last.op = "resize_terminal"
    /\ \E w \in Bordered :
          /\ w.width = 1 /\ w.content.cols = 0
          /\ w.height = 5 /\ w.content.rows + 2 = w.height

(***************************************************************************)
(* One session whose game draws overlapping windows and flushes            *)
(***************************************************************************)
MaxCompSteps == 4
CompCols == 16
CompRows == 6

CompInit ==
    /\ ParserIdle
    /\ sessions = [s \in {S1} |->
                     process_command(ClientSession_new(S1, 80, 24),
                                     InitCmd(CompCols, CompRows))]
    /\ last = NoInput
    /\ now = 0
    /\ steps = 0
    /\ ConnectionsSettled

\* "Hi" fits the title bar of a closable window 10 wide; "Title" does not
TitleHi == <<72, 105>>
TitleLong == <<84, 105, 116, 108, 101>>

CompCommands ==
    {[CreateWindow("a", 1, 1, 10, 4, "single") EXCEPT !.title = Some(ti)] :
        ti \in {TitleHi, TitleLong}}
    \cup {CreateWindow("b", 4, 2, 8, 3, "double"),
          CreateWindow("b", 12, 1, 3, 2, "none"),
          [CreateWindow("c", 3, 0, 4, 3, "none") EXCEPT !.invert = TRUE],
          [type |-> "print", window |-> "a", x |-> 0, y |-> 0, text |-> <<111, 107>>,
           fg |-> 2, bg |-> 4],
          [type |-> "set_cell", window |-> "b", x |-> 1, y |-> 0, char |-> 35,
           fg |-> 3, bg |-> 1],
          [type |-> "print_direct", x |-> 2, y |-> 0, text |-> <<77, 101, 110, 117>>,
           fg |-> 0, bg |-> 7],
          [UpdateWindow("b") EXCEPT !.visible = Some(FALSE)],
          BringToFront("a"),
          Flush}

CompCommand ==
    /\ steps < MaxCompSteps
    /\ \E c \in CompCommands : DoCommand(TargetAbsent, c)

SpecComposite == CompInit /\ [][CompCommand]_vars

\* what a cell shows
Shown(cell) == <<cell.char, cell.fg, cell.bg, cell.attrs>>
Swapped(shown) == <<shown[1], shown[3], shown[2], shown[4]>>

\* the cell the layers of wm should show at (x, y): the rendering of the
\* topmost visible non-invert window containing (x, y), else the background
\* cell, with fg and bg swapped once per visible invert window above it
Expected(wm, alone, x, y) ==
    LET at(i) == wm.windows[wm.z_order[i]]
        solid == {i \in 1..Len(wm.z_order) :
                     ~at(i).invert /\ Window_contains(at(i), x, y)}
        top == SetMax(solid, 0)
        base == IF solid = {} THEN Shown(Grid_get(wm.background, x, y))
                ELSE Shown(Grid_get(alone[wm.z_order[top]], x, y))
        inverts == {i \in (top + 1)..Len(wm.z_order) :
                       at(i).invert /\ Window_contains(at(i), x, y)}
    IN IF Cardinality(inverts) % 2 = 1 THEN Swapped(base) ELSE base

\* C3: after composite, every display cell is the rendering of the topmost
\* visible non-invert window containing it, or the background cell when no
\* visible window contains it, with fg and bg swapped by each visible invert
\* window above that layer.
C3_CompositeTopmost ==
    (last.op = "command" /\ last.cmd.type = "flush") =>
        \A wm \in WMs :
            LET alone == [i \in DOMAIN wm.windows |->
                             render_to(wm.windows[i], Grid_new(wm.cols, wm.rows))]
            IN \A x \in 0..(wm.cols - 1), y \in 0..(wm.rows - 1) :
                   Shown(Grid_get(wm.display, x, y)) = Expected(wm, alone, x, y)

(***************************************************************************)
(* One session whose player uses the mouse on three windows                *)
(***************************************************************************)
MaxMouseSteps == 4
MouseCols == 40
MouseRows == 14

\* The session after init and three create_window commands: a at (10,5)
\* 20x5; b at (22,4) 10x3, above a and covering part of a's title bar; c at
\* (2,11) 3x1, whose close button and resize handle share the cell (4,11).
MouseSession ==
    process_command(
      process_command(
        process_command(
          process_command(ClientSession_new(S1, 80, 24), InitCmd(MouseCols, MouseRows)),
          CreateWindow("a", 10, 5, 20, 5, "single")),
        CreateWindow("b", 22, 4, 10, 3, "single")),
      CreateWindow("c", 2, 11, 3, 1, "single"))

MouseInit ==
    /\ ParserIdle
    /\ sessions = [s \in {S1} |-> MouseSession]
    /\ last = NoInput
    /\ now = 0
    /\ steps = 0
    /\ ConnectionsSettled

\* left presses: a's title bar (twice as fast or as slow as a double-click),
\* a's close button, a's resize handle, a's content, b's content over a's
\* title bar, c's close button and resize handle, the background
MousePresses ==
    {<<15, 5, "left", 100>>, <<15, 5, "left", 600>>, <<11, 5, "left", 100>>,
     <<29, 9, "left", 100>>, <<12, 7, "left", 100>>, <<24, 5, "left", 100>>,
     <<4, 11, "left", 100>>, <<0, 0, "left", 100>>, <<15, 5, "right", 100>>}

MouseMotions ==
    {<<25, 8, "drag">>, <<25, 8, "move">>, <<39, 13, "drag">>, <<2, 0, "move">>}

MousePress ==
    /\ steps < MaxMouseSteps
    /\ \E p \in MousePresses : DoMouse(S1, p[1], p[2], p[3], "press", p[4])

MouseMotion ==
    /\ steps < MaxMouseSteps
    /\ \E m \in MouseMotions : DoMouse(S1, m[1], m[2], "left", m[3], 100)

MouseRelease ==
    /\ steps < MaxMouseSteps
    /\ DoMouse(S1, 0, 0, "left", "release", 100)

\* the game removes window a, possibly in the middle of a gesture
MouseCommand ==
    /\ steps < MaxMouseSteps
    /\ DoCommand(TargetString(S1), RemoveWindow("a"))

MouseNext == MousePress \/ MouseMotion \/ MouseRelease \/ MouseCommand

SpecMouse == MouseInit /\ [][MouseNext]_vars

\* the topmost visible window of wm containing (x, y), as an Option
TopWindowAt(wm, x, y) ==
    LET hits == {i \in 1..Len(wm.z_order) :
                    Window_contains(wm.windows[wm.z_order[i]], x, y)}
    IN IF hits = {} THEN None ELSE Some(wm.z_order[SetMax(hits, 0)])

\* a step that handles a mouse event of session s1
MouseStep == steps' = steps + 1 /\ last'.op = "mouse"
LeftPressStep == MouseStep /\ last'.event_type = "press" /\ last'.button = "left"
MotionStep == MouseStep /\ last'.event_type \in {"drag", "move"}
ReleaseStep == MouseStep /\ last'.event_type = "release"

\* the press of this step is a second title-bar press on window id within
\* the double-click time
IsDoubleClick(id) ==
    LET c == sessions[S1].interaction.last_title_bar_click IN
    c # None /\ c[1].window_id = id /\ now' - c[1].time_ms < 500

C5_PressStarts ==
    LET pre == sessions[S1]
        top == TopWindowAt(pre.windows, last'.x, last'.y)
    IN (/\ LeftPressStep /\ top # None
        /\ ~Window_hit_close_button(pre.windows.windows[top[1]], last'.x, last'.y)
        /\ ~Window_hit_resize_handle(pre.windows.windows[top[1]], last'.x, last'.y)
        /\ Window_hit_title_bar(pre.windows.windows[top[1]], last'.x, last'.y))
       => IF IsDoubleClick(top[1])
          THEN /\ last'.events = <<WindowMaximizeRequested(top[1])>>
               /\ ~last'.forward
               /\ sessions'[S1].interaction.dragging = pre.interaction.dragging
          ELSE /\ last'.events = <<>>
               /\ ~last'.forward
               /\ sessions'[S1].interaction.dragging =
                      Some([window_id |-> top[1],
                            offset_x |-> last'.x - pre.windows.windows[top[1]].x,
                            offset_y |-> last'.y - pre.windows.windows[top[1]].y])

\* a Drag or a Move while a drag is active: the window, if it still exists,
\* goes to (mouse - offset) clamped to x >= 0, y >= 1, x <= cols - width and
\* y <= rows - height; nothing is emitted or forwarded; the offset stays
C5_MotionMoves ==
    LET pre == sessions[S1]
        post == sessions'[S1]
        drag == pre.interaction.dragging
    IN (MotionStep /\ drag # None)
       => /\ last'.events = <<>>
          /\ ~last'.forward
          /\ post.interaction.dragging = drag
          /\ drag[1].window_id \in DOMAIN pre.windows.windows =>
                LET w == pre.windows.windows[drag[1].window_id]
                    x0 == IF last'.x - drag[1].offset_x < 0 THEN 0
                          ELSE last'.x - drag[1].offset_x
                    y0 == IF last'.y - drag[1].offset_y < 1 THEN 1
                          ELSE last'.y - drag[1].offset_y
                    xmax == IF pre.windows.cols > w.width
                            THEN pre.windows.cols - w.width ELSE 0
                    ymax == IF pre.windows.rows > w.height
                            THEN pre.windows.rows - w.height ELSE 0
                IN /\ post.windows.windows[drag[1].window_id].x =
                          (IF x0 > xmax THEN xmax ELSE x0)
                   /\ post.windows.windows[drag[1].window_id].y =
                          (IF y0 > ymax THEN ymax ELSE y0)

\* the release that ends a drag: not forwarded, the drag is over, and exactly
\* one window_moved with the window's position is emitted (none when the
\* window was removed during the gesture)
C5_ReleaseReports ==
    LET pre == sessions[S1]
        post == sessions'[S1]
        drag == pre.interaction.dragging
        moved == {i \in 1..Len(last'.events) : last'.events[i].type = "window_moved"}
    IN (ReleaseStep /\ drag # None)
       => /\ ~last'.forward
          /\ post.interaction.dragging = None
          /\ IF drag[1].window_id \in DOMAIN pre.windows.windows
             THEN LET w == post.windows.windows[drag[1].window_id] IN
                  /\ Cardinality(moved) = 1
                  /\ \A i \in moved : last'.events[i] = WindowMoved(w.id, w.x, w.y)
                  /\ w.x = pre.windows.windows[w.id].x
                  /\ w.y = pre.windows.windows[w.id].y
             ELSE moved = {}

C6_PressOutcome ==
    LET pre == sessions[S1]
        post == sessions'[S1]
        top == TopWindowAt(pre.windows, last'.x, last'.y)
    IN (LeftPressStep /\ top # None)
       => LET w == pre.windows.windows[top[1]]
              x == last'.x
              y == last'.y
          IN /\ \A i \in 1..Len(last'.events) : last'.events[i].id = w.id
             /\ post.interaction.dragging \in
                    {pre.interaction.dragging,
                     Some([window_id |-> w.id, offset_x |-> x - w.x, offset_y |-> y - w.y])}
             /\ post.interaction.resizing \in
                    {pre.interaction.resizing,
                     Some([window_id |-> w.id, original_width |-> w.width,
                           original_height |-> w.height, start_x |-> x, start_y |-> y])}
             /\ post.focused_window \in {pre.focused_window, Some(w.id)}
             /\ CASE Window_hit_close_button(w, x, y) ->
                       /\ last'.events = <<WindowCloseRequested(w.id)>>
                       /\ ~last'.forward
                       /\ post.interaction = pre.interaction
                       /\ post.focused_window = pre.focused_window
                  [] OTHER ->
                     CASE Window_hit_resize_handle(w, x, y) ->
                            /\ last'.events = <<>>
                            /\ ~last'.forward
                            /\ post.interaction.resizing # None
                            /\ post.interaction.resizing[1].window_id = w.id
                            /\ post.interaction.dragging = pre.interaction.dragging
                            /\ post.focused_window = pre.focused_window
                       [] OTHER ->
                          CASE Window_hit_title_bar(w, x, y) ->
                                 /\ ~last'.forward
                                 /\ post.interaction.resizing = pre.interaction.resizing
                                 /\ post.focused_window = pre.focused_window
                                 /\ \/ /\ last'.events = <<>>
                                       /\ post.interaction.dragging # None
                                       /\ post.interaction.dragging[1].window_id = w.id
                                    \/ /\ last'.events = <<WindowMaximizeRequested(w.id)>>
                                       /\ post.interaction.dragging = pre.interaction.dragging
                            [] OTHER ->
                                 /\ last'.forward
                                 /\ last'.events = <<WindowFocused(w.id)>>
                                 /\ post.focused_window = Some(w.id)
                                 /\ post.interaction = pre.interaction

C6_PressResolution == [][C6_PressOutcome]_vars

\* a left press at (24,5) on the content of window b, which lies over the
\* title bar of window a, has been forwarded and has focused b; and a press
\* on the cell (4,11), close button and resize handle of c, has asked to
\* close c
C6_Witness ==
    /\ last.op = "mouse" /\ last.event_type = "press" /\ last.button = "left"
    /\ last.x = 24 /\ last.y = 5
    /\ last.forward
    /\ last.events = <<WindowFocused("b")>>
    /\ sessions[S1].focused_window = Some("b")
    /\ "a" \in DOMAIN sessions[S1].windows.windows
    /\ Window_hit_title_bar(sessions[S1].windows.windows["a"], 24, 5)
    /\ sessions[S1].interaction.dragging = None

(***************************************************************************)
(* Two sessions and a game that addresses its commands                     *)
(***************************************************************************)
MaxRouteSteps == 3
RouteCols == 6
RouteRows == 4

\* two connected clients whose displays the game has initialised
RouteInit ==
    /\ ParserIdle
    /\ sessions = [s \in {S1, S2} |->
                     process_command(ClientSession_new(s, 80, 24),
                                     InitCmd(RouteCols, RouteRows))]
    /\ last = NoInput
    /\ now = 0
    /\ steps = 0
    /\ ConnectionsSettled

\* the session field of a line: absent, a number, "*", the id of a session
\* of the table, an id that is not in the table
RouteTargets ==
    {TargetAbsent, TargetOther, TargetString("*"), TargetString(S1), TargetString(S2),
     TargetString("session_10_0_0_9_5009")}

RouteCommands ==
    {CreateWindow("a", 1, 1, 4, 3, "single"),
     [type |-> "print_direct", x |-> 0, y |-> 0, text |-> <<65>>, fg |-> 7, bg |-> 0],
     [type |-> "print", window |-> "a", x |-> 0, y |-> 0, text |-> <<65>>,
      fg |-> 2, bg |-> 0],
     RemoveWindow("a"),
     Flush}

RouteCommand ==
    /\ steps < MaxRouteSteps
    /\ \E t \in RouteTargets, c \in RouteCommands : DoCommand(t, c)

\* a press on the title bar of window a, or on the background
RouteMouse ==
    /\ steps < MaxRouteSteps
    /\ \E s \in {S1, S2}, p \in {<<3, 1>>, <<0, 3>>} : DoMouse(s, p[1], p[2], "left", "press", 100)

RouteNext == RouteCommand \/ RouteMouse

SpecRouter == RouteInit /\ [][RouteNext]_vars

\* one routed command, judged against the table before it
C7_RoutedStep ==
    (last'.op = "command" /\ steps' = steps + 1) =>
        LET t == last'.target
            c == last'.cmd
            named == t.kind = "string" /\ t # TargetString("*")
        IN /\ DOMAIN sessions' = DOMAIN sessions
           /\ (named /\ t.value \in DOMAIN sessions) =>
                 /\ sessions'[t.value] = process_command(sessions[t.value], c)
                 /\ \A o \in DOMAIN sessions \ {t.value} : sessions'[o] = sessions[o]
           /\ (t.kind = "absent" \/ t = TargetString("*")) =>
                 \A s \in DOMAIN sessions : sessions'[s] = process_command(sessions[s], c)
           /\ (named /\ t.value \notin DOMAIN sessions) => sessions' = sessions

\* C7: a session-level command carrying session = s is processed by session
\* s and leaves every other session (windows, background, renderer,
\* interaction state) as it was; a command without session field or with
\* "*" is processed by every session of the table; a command naming an id
\* that is not in the table changes no session.
C7_SessionFrame == [][C7_RoutedStep]_vars

\* a print addressed to the second session wrote into its window a, while
\* the window a of the first session, created by a broadcast, stayed blank
C7_Witness ==
    /\ last.op = "command"
    /\ last.target = TargetString(S2)
    /\ last.cmd.type = "print"
    /\ "a" \in DOMAIN sessions[S1].windows.windows
    /\ "a" \in DOMAIN sessions[S2].windows.windows
    /\ sessions[S2].windows.windows["a"] # sessions[S1].windows.windows["a"]

(***************************************************************************)
(* Clients and a game connecting and disconnecting                         *)
(***************************************************************************)
MaxShutdowns == 1

ConnInit == ParserIdle /\ SessionsIdle /\ ConnectionsSettled

\* a game in its read loop sends Shutdown for a session
GameShutdown ==
    /\ steps < MaxShutdowns
    /\ \E g \in Games : games[g].pc = "serving"
    /\ \E a \in Addresses : DoShutdown(TargetString(session_id(a)))

ConnNext ==
    \/ ClientAccepted \/ InsertShutdownChannel \/ SendClientConnect \/ InsertSession
    \/ TelnetNegotiation \/ InitDisplay \/ LeaveLoop \/ SendClientDisconnect
    \/ RemoveSession \/ RemoveShutdownChannel
    \/ GameAccepted \/ GameEnumerate \/ GameReceive \/ GameDisconnected
    \/ GameShutdown

SpecConn == ConnInit /\ [][ConnNext]_vars

\* C8: a game that has written its enumeration and has received every
\* response broadcast so far has been sent a client_connect for every
\* session of the table.
C8_GameLearnsSessions ==
    \A g \in Games :
        (games[g].pc = "serving" /\ games[g].rx > Len(event_tx)) =>
            \A s \in DOMAIN sessions : ClientConnect(s) \in games[g].written

Broadcasts(r) == Cardinality({i \in 1..Len(event_tx) : event_tx[i] = r})

\* C9: once the handler of a client connection has ended, its session is
\* not in the session table, its sender is not in shutdown_channels, and
\* exactly one client_disconnect has been broadcast for it.
C9_EndedHandlerCleanedUp ==
    \A a \in Addresses :
        clients[a].pc \in {"ended", "returned"} =>
            /\ session_id(a) \notin DOMAIN sessions
            /\ session_id(a) \notin shutdown_channels
            /\ Broadcasts(ClientDisconnect(session_id(a))) = 1

(***************************************************************************)
(* Two sessions whose game shuts them down                                 *)
(***************************************************************************)
MaxShutSteps == 2
ShutCols == 4
ShutRows == 3

ShutInit ==
    /\ ParserIdle
    /\ sessions = [s \in {S1, S2} |->
                     process_command(ClientSession_new(s, 80, 24),
                                     InitCmd(ShutCols, ShutRows))]
    /\ last = NoInput
    /\ now = 0
    /\ steps = 0
    /\ ConnectionsSettled

ShutCommand ==
    /\ steps < MaxShutSteps
    /\ \E t \in {TargetAbsent, TargetString(S1), TargetString(S2),
                 TargetString("session_10_0_0_9_5009")} : DoShutdown(t)

ShutNext ==
    \/ ShutCommand \/ WriterWrites \/ LeaveLoop \/ SendClientDisconnect
    \/ RemoveSession \/ RemoveShutdownChannel

SpecShutdown == ShutInit /\ [][ShutNext]_vars

\* C11: when the handler of a client connection has ended, no shutdown
\* sequence that was queued for the client is left unwritten, that is, every
\* shutdown sequence sent to the session reached the socket (or its write
\* failed) before the connection was closed.
C11_ShutdownWritten ==
    \A a \in Addresses :
        clients[a].pc = "ended" =>
            \A i \in 1..Len(clients[a].output_rx) :
                clients[a].output_rx[i] # shutdown_output

(***************************************************************************)
(* A game that connects and sends lines, some of them in error             *)
(***************************************************************************)
MaxGameSteps == 3
GameCols == 4
GameRows == 3

GameInit ==
    /\ ParserIdle
    /\ sessions = [s \in {S1} |->
                     process_command(ClientSession_new(s, 80, 24),
                                     InitCmd(GameCols, GameRows))]
    /\ last = NoInput
    /\ now = 0
    /\ steps = 0
    /\ ConnectionsSettled

GameServing == \E g \in Games : games[g].pc = "serving"

GameCommands ==
    {CreateWindow("a", 0, 0, 3, 2, "none"),
     [type |-> "print", window |-> "a", x |-> 0, y |-> 0, text |-> <<65>>,
      fg |-> 2, bg |-> 0],
     [type |-> "clear_window", id |-> "b"],
     [UpdateWindow("a") EXCEPT !.x = Some(1)]}

\* a line holding a session-level command
GameLine ==
    /\ steps < MaxGameSteps
    /\ GameServing
    /\ \E t \in {TargetAbsent, TargetString(S1), TargetString("session_10_0_0_9_5009")},
          c \in GameCommands : DoCommand(t, c)

\* a line that is not a command
GameMalformedLine ==
    /\ steps < MaxGameSteps
    /\ GameServing
    /\ DoParseError

\* the client may leave meanwhile: its ClientDisconnect is what the game's
\* writer task has to write
GameNext ==
    \/ GameAccepted \/ GameEnumerate \/ GameReceive \/ GameDisconnected
    \/ GameLine \/ GameMalformedLine
    \/ LeaveLoop \/ SendClientDisconnect \/ RemoveSession \/ RemoveShutdownChannel

SpecGame == GameInit /\ [][GameNext]_vars

\* the line just handled was in error: malformed, addressed to a session
\* that is not in the table, or naming a window its session does not have
ProtocolErrorStep ==
    /\ steps' = steps + 1
    /\ \/ last'.op = "parse_error"
       \/ /\ last'.op = "command"
          /\ LET t == last'.target IN
             \/ t.kind = "string" /\ t # TargetString("*") /\ t.value \notin DOMAIN sessions
             \/ \E s \in DOMAIN sessions :
                   /\ (t.kind = "string" /\ t # TargetString("*")) => s = t.value
                   /\ command_response(sessions[s], last'.cmd).type = "error"

\* C12: a line in error makes the server send an error response to the
\* game, and leaves the game connection open.
C12_ErrorDelivered ==
    [][ProtocolErrorStep =>
          /\ \A g \in Games : games'[g].pc = games[g].pc
          /\ \E i \in (Len(event_tx) + 1)..Len(event_tx') : event_tx'[i].type = "error"]_vars

\* the connection part of C12 alone: a line in error leaves every game
\* connection as it was
C12_ConnectionStaysOpen ==
    [][ProtocolErrorStep => \A g \in Games : games'[g].pc = games[g].pc]_vars

(***************************************************************************)
(* One session on the default 80x24 display, drawn into and flushed        *)
(***************************************************************************)
MaxRenderSteps == 4

RenderInit ==
    /\ ParserIdle
    /\ sessions = [s \in {S1} |-> ClientSession_new(s, 80, 24)]
    /\ last = NoInput
    /\ now = 0
    /\ steps = 0
    /\ ConnectionsSettled

\* 88 is 'X'
PrintX(fg) ==
    [type |-> "print", window |-> "w", x |-> 0, y |-> 0, text |-> <<88>>,
     fg |-> fg, bg |-> 0]

RenderCommands ==
    {InitCmd(80, 24), CreateWindow("w", 10, 5, 20, 5, "single"),
     CreateWindow("w", 0, 1, 3, 3, "none"), PrintX(10), PrintX(7)}

RenderCommand ==
    /\ steps < MaxRenderSteps
    /\ \E c \in RenderCommands : DoCommand(TargetString(S1), c)

RenderFlush ==
    /\ steps < MaxRenderSteps
    /\ \E force_full \in BOOLEAN : DoFlush(TargetString(S1), force_full)

RenderNext == RenderCommand \/ RenderFlush

SpecRender == RenderInit /\ [][RenderNext]_vars

\* the byte sequence pat occurs in the byte sequence out
Contains(out, pat) ==
    \E i \in 1..(Len(out) - Len(pat) + 1) : SubSeq(out, i, i + Len(pat) - 1) = pat

\* the session after init(80,24), create_window w at (10,5) 20x5 and print
\* 'X' at (0,0) of w with fg 10
ScenarioSession ==
    process_command(
        process_command(
            process_command(ClientSession_new(S1, 80, 24), InitCmd(80, 24)),
            CreateWindow("w", 10, 5, 20, 5, "single")),
        PrintX(10))

\* C13: the flush (force_full absent) that follows init(80,24), create_window
\* w at (10,5) 20x5 and print 'X' at (0,0) of w with fg 10 sends bytes that
\* contain ESC[7;12H, an SGR sequence with code 92, and X.
C13_FlushPositionsCursor ==
    [][(/\ sessions[S1] = ScenarioSession
        /\ last'.op = "flush" /\ ~last'.cmd.force_full /\ steps' = steps + 1)
       => LET out == clients'[Addr1].output_rx[Len(clients'[Addr1].output_rx)] IN
          /\ Contains(out, CSI \o <<55, 59, 49, 50, 72>>)
          /\ \E pre \in {<<91>>, <<59>>}, post \in {<<59>>, <<109>>} :
                Contains(out, pre \o <<57, 50>> \o post)
          /\ Contains(out, <<88>>)]_vars

(***************************************************************************)
(* The renderer emitting one cell after the other, and the terminal that   *)
(* reads the SGR codes                                                     *)
(***************************************************************************)
SgrColors == 0..15
SgrBackgrounds == {Black, 4, BrightMagenta}
SgrAttrs == {{}, {"bold"}, {"bold", "reverse"}}

\* what a terminal shows after an SGR code: 0 restores its defaults, which
\* the renderer takes to be white on black (AnsiIbmRenderer::reset)
term_code(t, code) ==
    CASE code = 0 -> [fg |-> White, bg |-> Black, attrs |-> {}]
      [] code \in 1..7 ->
           [t EXCEPT !.attrs = @ \cup {CASE code = 1 -> "bold" [] code = 2 -> "dim"
                                         [] code = 3 -> "italic" [] code = 4 -> "underline"
                                         [] code = 5 -> "blink" [] OTHER -> "reverse"}]
      [] code \in 30..37 -> [t EXCEPT !.fg = code - 30]
      [] code \in 90..97 -> [t EXCEPT !.fg = code - 90 + 8]
      [] code \in 40..47 -> [t EXCEPT !.bg = code - 40]
      [] code \in 100..107 -> [t EXCEPT !.bg = code - 100 + 8]
      [] OTHER -> t
RECURSIVE term_codes(_, _)
term_codes(t, codes) ==
    IF codes = <<>> THEN t ELSE term_codes(term_code(t, Head(codes)), Tail(codes))

\* the renderer and the terminal right after render_full's ESC[H ESC[0m
SgrInit ==
    /\ ParserIdle
    /\ sessions = [s \in {S1} |->
                     process_command(ClientSession_new(s, 80, 24), InitCmd(1, 1))]
    /\ last = [op |-> "reset", term |-> [fg |-> White, bg |-> Black, attrs |-> {}]]
    /\ now = 0
    /\ steps = 0
    /\ ConnectionsSettled

\* one render_cell of a render loop: the renderer's sgr for the cell, and
\* the terminal reading the codes sent
EmitCell ==
    \E fg \in SgrColors, bg \in SgrBackgrounds, attrs \in SgrAttrs :
        LET r == sessions[S1].renderer
            codes == sgr_codes(r, fg, bg, attrs)
        IN /\ sessions' = [sessions EXCEPT ![S1].renderer = sgr(r, fg, bg, attrs).r]
           /\ last' = [op |-> "sgr", fg |-> fg, bg |-> bg, attrs |-> attrs,
                       prev_attrs |-> r.current_attrs, codes |-> codes,
                       term |-> term_codes(last.term, codes)]
           /\ UNCHANGED <<now, steps, parserVars, serverVars>>

SpecSgr == SgrInit /\ [][EmitCell]_vars

Codes(codes) == {codes[i] : i \in 1..Len(codes)}

\* C14: when the cell just emitted lacks an attribute the previously
\* emitted cell had, its SGR codes contain 0 and the foreground and
\* background codes of the cell; and after every cell the terminal shows
\* the colours and attributes of that cell.
C14_ResetReemitsColors ==
    last.op = "sgr" =>
        /\ (last.prev_attrs \ last.attrs # {}) =>
               {0, fg_code(last.fg), bg_code(last.bg)} \subseteq Codes(last.codes)
        /\ last.term = [fg |-> last.fg, bg |-> last.bg, attrs |-> last.attrs]

(***************************************************************************)
(* The cell and grid mutators applied to one grid, the background of a     *)
(* session's window manager                                                *)
(***************************************************************************)
MutCols == 2
MutRows == 1
MutChars == {32, 88}
MutColors == {White, Black}
MutAttrs == {Attrs_default, Attrs_bold}

MutInit ==
    /\ ParserIdle
    /\ sessions = [s \in {S1} |->
                     process_command(ClientSession_new(s, 80, 24), InitCmd(MutCols, MutRows))]
    /\ last = [op |-> "none"]
    /\ now = 0
    /\ steps = 0
    /\ ConnectionsSettled

\* the grids copy_from and blit read: an untouched one, one with other
\* values, one with the values the target has, and one of another size
MutSources ==
    {Grid_new(MutCols, MutRows),
     Grid_clear_with(Grid_new(MutCols, MutRows), 88, Black, White),
     sessions[S1].windows.background,
     Grid_new(1, 1)}

Mutated(op, g) ==
    /\ sessions' = [sessions EXCEPT ![S1].windows.background = g]
    /\ last' = [op |-> op]
    /\ UNCHANGED <<now, steps, parserVars, serverVars>>

MutateCell ==
    \E i \in 1..(MutCols * MutRows), ch \in MutChars, fg \in MutColors, bg \in MutColors,
       attrs \in MutAttrs :
        LET g == sessions[S1].windows.background
            on(cell) == [g EXCEPT !.cells[i] = cell] IN
        \/ Mutated("set_char", on(Cell_set_char(g.cells[i], ch)))
        \/ Mutated("set_fg", on(Cell_set_fg(g.cells[i], fg)))
        \/ Mutated("set_bg", on(Cell_set_bg(g.cells[i], bg)))
        \/ Mutated("set", on(Cell_set(g.cells[i], ch, fg, bg, attrs)))
        \/ Mutated("clear", on(Cell_clear(g.cells[i])))

MutateGrid ==
    \E x \in 0..MutCols, ch \in MutChars, fg \in MutColors, bg \in MutColors,
       attrs \in MutAttrs, w \in 1..MutCols :
        LET g == sessions[S1].windows.background IN
        \/ Mutated("set", Grid_set(g, x, 0, ch, fg, bg, attrs))
        \/ Mutated("set_char", Grid_set_char(g, x, 0, ch))
        \/ Mutated("write_str", Grid_write_str(g, x, 0, <<ch, 88>>, fg, bg, attrs))
        \/ Mutated("fill_rect", Grid_fill_rect(g, x, 0, w, 1, ch, fg, bg))
        \/ Mutated("clear", Grid_clear(g))
        \/ Mutated("clear_with", Grid_clear_with(g, ch, fg, bg))

CopyGrid ==
    \E src \in MutSources, x \in 0..(MutCols - 1), w \in 1..MutCols :
        LET g == sessions[S1].windows.background IN
        \/ Mutated("copy_from", Grid_copy_from(g, src))
        \/ Mutated("blit", Grid_blit(g, src, 0, 0, x, 0, w, 1))

\* Grid::mark_all_clean, which every flush ends with
MarkClean ==
    /\ sessions' = [sessions EXCEPT ![S1].windows.background = Grid_mark_all_clean(@)]
    /\ last' = [op |-> "mark_all_clean"]
    /\ UNCHANGED <<now, steps, parserVars, serverVars>>

MutNext == MutateCell \/ MutateGrid \/ CopyGrid \/ MarkClean

SpecMut == MutInit /\ [][MutNext]_vars

CellValue(cell) == <<cell.char, cell.fg, cell.bg, cell.attrs>>

\* C15: set_char, set_fg, set_bg, set, write_str, fill_rect, clear,
\* clear_with, copy_from and blit set a cell's dirty flag exactly when they
\* change the cell's value: a changed cell is dirty afterwards, a cell whose
\* value stays keeps the flag it had.
C15_DirtyIffChanged ==
    [][last'.op # "mark_all_clean" =>
          \A i \in 1..(MutCols * MutRows) :
              LET before == sessions[S1].windows.background.cells[i]
                  after == sessions'[S1].windows.background.cells[i]
              IN after.dirty = (IF CellValue(after) # CellValue(before)
                                THEN TRUE ELSE before.dirty)]_vars

(***************************************************************************)
(* render_full and render_dirty on one grid, the display of a session,     *)
(* of every size from no cell upwards                                      *)
(***************************************************************************)
MaxDirtyCols == 2
MaxDirtyRows == 1
MaxDirtySteps == 5

\* rendered: render_full has run on the grid and no cell was written since
DirtyInit ==
    /\ ParserIdle
    /\ \E cols \in 0..MaxDirtyCols, rows \in 0..MaxDirtyRows :
          sessions = [s \in {S1} |->
                        process_command(ClientSession_new(s, 80, 24), InitCmd(cols, rows))]
    /\ last = [op |-> "none", out |-> <<>>, rendered |-> FALSE]
    /\ now = 0
    /\ steps = 0
    /\ ConnectionsSettled

Rendered(op, run) ==
    /\ steps < MaxDirtySteps
    /\ sessions' = [sessions EXCEPT ![S1].renderer = run.r]
    /\ last' = [op |-> op, out |-> run.out,
                rendered |-> last.rendered \/ op = "render_full"]
    /\ steps' = steps + 1
    /\ UNCHANGED <<now, parserVars, serverVars>>

FullRender ==
    Rendered("render_full", render_full_run(sessions[S1].renderer, sessions[S1].windows.display))

DirtyRender ==
    Rendered("render_dirty", render_dirty_run(sessions[S1].renderer, sessions[S1].windows.display))

\* Grid::mark_all_clean on the display, as at the end of a flush
CleanDisplay ==
    /\ steps < MaxDirtySteps
    /\ sessions' = [sessions EXCEPT ![S1].windows.display = Grid_mark_all_clean(@)]
    /\ last' = [last EXCEPT !.op = "mark_all_clean", !.out = <<>>]
    /\ steps' = steps + 1
    /\ UNCHANGED <<now, parserVars, serverVars>>

\* Grid::set of a red X on one cell of the display
DrawCell ==
    /\ steps < MaxDirtySteps
    /\ \E x \in 0..(MaxDirtyCols - 1), y \in 0..(MaxDirtyRows - 1) :
          LET g == sessions[S1].windows.display IN
          /\ Grid_inside(g, x, y)
          /\ sessions' = [sessions EXCEPT ![S1].windows.display =
                             Grid_set(g, x, y, 88, 1, Black, Attrs_default)]
    /\ last' = [op |-> "set", out |-> <<>>, rendered |-> FALSE]
    /\ steps' = steps + 1
    /\ UNCHANGED <<now, parserVars, serverVars>>

DirtyNext == FullRender \/ DirtyRender \/ CleanDisplay \/ DrawCell

SpecDirty == DirtyInit /\ [][DirtyNext]_vars

AllClean(g) == \A i \in DOMAIN g.cells : ~g.cells[i].dirty

\* C16: after render_full of a grid, render_dirty of the same grid with
\* every cell clean returns the empty output, whatever the size of the
\* grid, grids of no cell and of one cell included.
C16_CleanRendersNothing ==
    [][(/\ last.rendered
        /\ AllClean(sessions[S1].windows.display)
        /\ last'.op = "render_dirty"
        /\ steps' = steps + 1)
       => last'.out = <<>>]_vars

\* render_dirty has returned nothing for a one-cell grid rendered in full
\* and marked clean before
C16_Witness ==
    /\ last.op = "render_dirty"
    /\ last.rendered
    /\ last.out = <<>>
    /\ Len(sessions[S1].windows.display.cells) = 1
    /\ AllClean(sessions[S1].windows.display)

(***************************************************************************)
(* The telnet filter applied to a chunk a client's socket has delivered    *)
(***************************************************************************)
MaxChunk == 4
\* IAC and its commands, NOP (241) for the other two-byte commands, an
\* option (1) and a letter
TelnetBytes == {IAC, WILL, DONT, SB, SE, 241, 1, 65}

RECURSIVE SeqsUpTo(_, _)
SeqsUpTo(S, n) ==
    IF n = 0 THEN {<<>>}
    ELSE LET shorter == SeqsUpTo(S, n - 1) IN
         shorter \cup {Append(s, b) : s \in {t \in shorter : Len(t) = n - 1}, b \in S}

TelnetInit ==
    /\ ParserIdle
    /\ sessions = [s \in {S1} |->
                     process_command(ClientSession_new(s, 80, 24), InitCmd(1, 1))]
    /\ \E data \in SeqsUpTo(TelnetBytes, MaxChunk) : last = [op |-> "read", data |-> data]
    /\ now = 0
    /\ steps = 0
    /\ ConnectionsSettled

\* handle_client_connection, Ok(n) of the read: the chunk read is filtered
\* (twice: what the filter returns for its own output)
FilterChunk ==
    /\ last.op = "read"
    /\ LET filtered == filter_telnet_commands(last.data) IN
       last' = [op |-> "filter", data |-> last.data, filtered |-> filtered,
                twice |-> filter_telnet_commands(filtered)]
    /\ UNCHANGED <<sessions, now, steps, parserVars, serverVars>>

SpecTelnet == TelnetInit /\ [][FilterChunk]_vars

\* C17: the filter is idempotent: filtering the filter's output returns it
\* unchanged, for every byte sequence.
C17_Idempotent == last.op = "filter" => last.twice = last.filtered

\* C17, amended: filtering the filter's output returns it unchanged exactly
\* when the output has no 0xff before its last byte.
C17_IdempotentUnlessIac ==
    last.op = "filter" =>
        (last.twice = last.filtered
           <=> \A i \in 1..(Len(last.filtered) - 1) : last.filtered[i] # IAC)

\* two escaped IACs: the output <<255, 255>> is cut down to <<255>> by a
\* second pass
C17_Witness ==
    /\ last.op = "filter"
    /\ last.data = <<IAC, IAC, IAC, IAC>>
    /\ last.filtered = <<IAC, IAC>>
    /\ last.twice = <<IAC>>

\* the index of the first IAC SE at or after i, 0 when there is none
first_iac_se(data, i) ==
    LET ends == {j \in i..(Len(data) - 1) : data[j] = IAC /\ data[j + 1] = SE}
    IN IF ends = {} THEN 0 ELSE CHOOSE j \in ends : \A k \in ends : j <= k

\* data from index i on with the triples IAC WILL/WONT/DO/DONT X, the
\* subnegotiations IAC SB ... IAC SE and the other two-byte IAC sequences
\* removed, IAC IAC replaced by one 0xff and every other byte kept.  A
\* triple the data ends in the middle of and an IAC SB with no IAC SE after
\* it count as two-byte sequences; an IAC that is the last byte is kept.
RECURSIVE sequences_removed(_, _)
sequences_removed(data, i) ==
    IF i > Len(data) THEN <<>>
    ELSE IF data[i] = IAC /\ i + 1 <= Len(data)
    THEN CASE data[i + 1] \in {WILL, WONT, DO, DONT} ->
                sequences_removed(data, IF i + 2 <= Len(data) THEN i + 3 ELSE i + 2)
           [] data[i + 1] = SB ->
                LET j == first_iac_se(data, i + 2) IN
                sequences_removed(data, IF j = 0 THEN i + 2 ELSE j + 2)
           [] data[i + 1] = IAC -> <<255>> \o sequences_removed(data, i + 2)
           [] OTHER -> sequences_removed(data, i + 2)
    ELSE <<data[i]>> \o sequences_removed(data, i + 1)

\* C18: for every chunk the filter returns the chunk with each triple
\* IAC WILL/WONT/DO/DONT X removed, each subnegotiation IAC SB ... IAC SE
\* removed, each IAC IAC replaced by one 0xff, every other two-byte IAC
\* sequence removed, and all remaining bytes kept in their order.
C18_SequencesRemoved ==
    last.op = "filter" => last.filtered = sequences_removed(last.data, 1)

(***************************************************************************)
(* One SGR mouse report ESC [ < Pb ; Px ; Py M/m, delivered to the parser  *)
(* in one chunk or in several                                              *)
(***************************************************************************)
\* button codes: the three buttons and none, with the motion bit (32), the
\* wheel bit (64), a modifier (16), and codes that do not fit a u8
ReportButtons == {0, 1, 2, 3, 16, 32, 34, 35, 64, 65, 66, 96, 99, 256, 288}
\* coordinates: 0, the 1-based ones, the largest u16 and one beyond
ReportXs == {0, 1, 10, 65535, 65536}
ReportYs == {0, 1, 5}

sgr_report(pb, px, py, final) ==
    <<ESC, 91, 60>> \o Digits(pb) \o <<59>> \o Digits(px) \o <<59>> \o Digits(py)
    \o <<final>>

ReportInit ==
    /\ ParserIdle
    /\ sessions = EmptyMap
    /\ \E pb \in ReportButtons, px \in ReportXs, py \in ReportYs, final \in {77, 109} :
          last = [op |-> "report", pb |-> pb, px |-> px, py |-> py, final |-> final,
                  bytes |-> sgr_report(pb, px, py, final)]
    /\ now = 0
    /\ steps = 0
    /\ ConnectionsSettled

\* one call of InputParser::parse with the next bytes of the report
ParseReport ==
    /\ \E k \in 1..(Len(last.bytes) - Len(received)) :
          LET data == SubSeq(last.bytes, Len(received) + 1, Len(received) + k)
              r == parse(buffer, data)
          IN /\ buffer' = r.buffer
             /\ events' = events \o r.events
             /\ received' = received \o data
    /\ calls' = calls + 1
    /\ UNCHANGED <<sessionVars, serverVars>>

SpecReport == ReportInit /\ [][ParseReport]_vars

ReportParsed == last.op = "report" /\ received = last.bytes

\* a button is encoded: button bits 0, 1 or 2, with the wheel bit 0 or 1
RealButton(pb) == IF BitSet(pb, 64) THEN pb % 4 \in {0, 1} ELSE pb % 4 \in {0, 1, 2}

\* Press without the motion bit; with it Drag when a button is encoded, Move
\* when not; the final m makes it Release only when a button is encoded
ReportEvent(pb, final) ==
    IF final = 109 /\ RealButton(pb) THEN "release"
    ELSE IF BitSet(pb, 32) THEN (IF RealButton(pb) THEN "drag" ELSE "move")
    ELSE "press"

\* C19: a complete SGR mouse report yields exactly one Mouse event, at
\* (Px - 1, Py - 1): Press with M and no motion bit, Drag with the motion bit
\* and a button, Move with the motion bit and button bits 3, and Release with
\* m only when a button is encoded.
C19_ReportMinusOne ==
    ReportParsed =>
        /\ Len(events) = 1
        /\ events[1].type = "mouse"
        /\ events[1].x = last.px - 1
        /\ events[1].y = last.py - 1
        /\ events[1].event = ReportEvent(last.pb, last.final)

\* C19, amended: the coordinates are (Px - 1, Py - 1) for Px, Py from 1 to
\* 65535 and 0 for a coordinate of 0 or beyond 65535; a button code beyond
\* 255 is read as 0; the report leaves nothing in the buffer, however it
\* was split.
C19_ReportSaturating ==
    ReportParsed =>
        LET pb == IF last.pb <= 255 THEN last.pb ELSE 0
            coord(p) == IF p >= 1 /\ p <= 65535 THEN p - 1 ELSE 0
        IN /\ Len(events) = 1
           /\ events[1].type = "mouse"
           /\ events[1].x = coord(last.px)
           /\ events[1].y = coord(last.py)
           /\ events[1].event = ReportEvent(pb, last.final)
           /\ buffer = <<>>

\* a motion report with button bits 3 and final m, split into chunks, has
\* been parsed to a Move at (9, 4)
C19_Witness ==
    /\ ReportParsed
    /\ calls > 1
    /\ last.pb = 35 /\ last.px = 10 /\ last.py = 5 /\ last.final = 109
    /\ events = <<MouseEv(9, 4, "none", "move", NoMods)>>

(***************************************************************************)
(* The parser fed chunks with ESC at every place of a sequence             *)
(***************************************************************************)
MaxEscCalls == 4

\* ESC alone, doubled and as the start of CSI, SS3 and X10 mouse reports,
\* the bytes that continue them, a control byte and a UTF-8 lead byte
EscChunks ==
    { <<ESC>>, <<ESC, ESC>>, <<ESC, 91>>, <<ESC, 79>>, <<ESC, 91, 77>>, <<ESC, 91, 60>>,
      <<91>>, <<79>>, <<65>>, <<1>>, <<195>>, <<33, 34>>, <<48, 59>> }

EscInit == ParserIdle /\ SessionsIdle /\ ConnectionsSettled

\* one call of InputParser::parse
ParseEsc ==
    /\ calls < MaxEscCalls
    /\ \E data \in EscChunks :
         LET r == parse(buffer, data) IN
         /\ buffer' = r.buffer
         /\ events' = events \o r.events
         /\ received' = received \o data
    /\ calls' = calls + 1
    /\ UNCHANGED <<sessionVars, serverVars>>

SpecEsc == EscInit /\ [][ParseEsc]_vars

EndsWithEsc(s) == s # <<>> /\ s[Len(s)] = ESC

NoEscapeEvent(evs) ==
    \A i \in 1..Len(evs) :
        /\ ~(evs[i].type = "key" /\ evs[i].key = "escape")
        /\ ~(evs[i].type = "char" /\ evs[i].char = ESC)

EscIsPayload(buf) ==
    \/ buf = <<ESC, 79>>
    \/ Len(buf) = 5 /\ SubSeq(buf, 1, 3) = <<ESC, 91, 77>>

MaxCprSteps == 3
CprCols == 5
CprRows == 2

\* ESC [ 2 J ESC [ 1 ; 1 H H e l l o CR LF ESC [ 6 n
CprExample ==
    <<ESC, 91, 50, 74, ESC, 91, 49, 59, 49, 72, 72, 101, 108, 108, 111, 13, 10,
      ESC, 91, 54, 110>>

\* one sequence, one piece of a sequence or some text each: ESC[2J, ESC[1;1H,
\* Hello, CR LF, ESC[6n, ESC[5n, ESC[n, ESC[06n, ESC[6;1n, ESC[?6n, ESC[+6n,
\* ESC[6m, ESC[2;1R, and the pieces ESC[, 6n, ESC, ESC]0
CprTokens ==
    {<<ESC, 91, 50, 74>>, <<ESC, 91, 49, 59, 49, 72>>, <<72, 101, 108, 108, 111>>,
     <<13, 10>>, <<ESC, 91, 54, 110>>, <<ESC, 91, 53, 110>>, <<ESC, 91, 110>>,
     <<ESC, 91, 48, 54, 110>>, <<ESC, 91, 54, 59, 49, 110>>, <<ESC, 91, 63, 54, 110>>,
     <<ESC, 91, 43, 54, 110>>, <<ESC, 91, 54, 109>>, <<ESC, 91, 50, 59, 49, 82>>,
     <<ESC, 91>>, <<54, 110>>, <<ESC>>, <<ESC, 93, 48>>}

CprInit ==
    /\ ParserIdle
    /\ sessions = EmptyMap
    /\ last = NoInput
    /\ now = 0
    /\ steps = 0
    /\ ChannelsSettled
    /\ \E size \in {<<1, 1>>, <<CprCols, CprRows>>},
          terminal_type \in {"ansi", "vt100", "raw"}, overflow_checks \in BOOLEAN :
         tasks = <<Task_new("t", size[1], size[2], terminal_type, overflow_checks)>>

\* a fresh emulator receives the example in one call
CprFeedExample ==
    /\ steps = 0
    /\ DoProcessData(1, CprExample)

CprFeed ==
    /\ steps < MaxCprSteps
    /\ \E data \in CprTokens : DoProcessData(1, data)

CprNext == CprFeedExample \/ CprFeed

SpecCpr == CprInit /\ [][CprNext]_vars

\* the bytes of the sequence the parser of t is in the middle of
pending(t) ==
    CASE t.parser_state = "escape" -> <<ESC>>
      [] t.parser_state = "csi" -> <<ESC, 91>> \o t.esc_buffer
      [] t.parser_state = "osc" -> <<ESC, 93>> \o t.esc_buffer
      [] OTHER -> <<>>

\* s is one CSI sequence with the final byte n and the first parameter 6
is_cpr_request(s) ==
    /\ Len(s) >= 3
    /\ s[1] = ESC
    /\ s[2] = 91
    /\ s[Len(s)] = 110
    /\ \A i \in 3..(Len(s) - 1) : s[i] < 64 \/ s[i] > 126
    /\ parse_param(SplitSemi(SubSeq(s, 3, Len(s) - 1))[1]) = 6

\* the characters of the first n cells of row y of the screen
RowText(t, y, n) == [x \in 1..n |-> t.screen[y + 1][x].char]

MaxRestoreSteps == 5
RestoreCols == 2
RestoreRows == 2

\* A, LF, TAB, ESC 7, ESC 8, ESC[s, ESC[u, ESC[K, ESC[1K, ESC[2K, ESC[J,
\* ESC[1J, ESC[2J, ESC[2;2H, ESC[C
RestoreTokens ==
    {<<65>>, <<10>>, <<9>>, <<ESC, 55>>, <<ESC, 56>>, <<ESC, 91, 115>>, <<ESC, 91, 117>>,
     <<ESC, 91, 75>>, <<ESC, 91, 49, 75>>, <<ESC, 91, 50, 75>>, <<ESC, 91, 74>>,
     <<ESC, 91, 49, 74>>, <<ESC, 91, 50, 74>>, <<ESC, 91, 50, 59, 50, 72>>,
     <<ESC, 91, 67>>}

RestoreInit ==
    /\ ParserIdle
    /\ sessions = EmptyMap
    /\ last = NoInput
    /\ now = 0
    /\ steps = 0
    /\ ChannelsSettled
    /\ \E width \in 1..RestoreCols, height \in 1..RestoreRows, overflow_checks \in BOOLEAN :
         tasks = <<Task_new("t", width, height, "ansi", overflow_checks)>>

RestoreFeed ==
    /\ steps < MaxRestoreSteps
    /\ \E data \in RestoreTokens : DoProcessData(1, data)

RestoreResize ==
    /\ steps < MaxRestoreSteps
    /\ \E width \in 1..RestoreCols, height \in 1..RestoreRows : DoResize(1, width, height)

RestoreNext == RestoreFeed \/ RestoreResize

SpecRestore == RestoreInit /\ [][RestoreNext]_vars

\* the screen has exactly height rows of exactly width cells
ScreenShape ==
    LET t == tasks[1].terminal IN
    /\ Len(t.screen) = t.height
    /\ \A y \in 1..Len(t.screen) : Len(t.screen[y]) = t.width

\* no call has indexed outside the screen
NoPanic == tasks[1].state # "panicked"

\* C22: an emulator created with width and height at least 1, after any
\* process_data and resize calls (sizes at least 1), has cursor_y < height
\* and cursor_x <= width, a screen of exactly height rows of exactly width
\* cells, and has not indexed outside its screen.
C22_CursorInScreen ==
    /\ NoPanic
    /\ tasks[1].terminal.cursor_y < tasks[1].terminal.height
    /\ tasks[1].terminal.cursor_x <= tasks[1].terminal.width
    /\ ScreenShape

(***************************************************************************)
(* The emulator of one narrow terminal, scrolled past its scrollback bound *)
(***************************************************************************)
MaxScrollSteps == 3
ScrollCols == 1
ScrollRows == 2

\* ESC [ S and LF: one scroll_up when the cursor is in the last row
ScrollOnce == {<<ESC, 91, 83>>, <<10>>}

\* A, ESC[44m (blue background), ESC[999S, ESC[1000S
ScrollTokens ==
    ScrollOnce \cup {<<65>>, <<ESC, 91, 52, 52, 109>>,
                     <<ESC, 91, 57, 57, 57, 83>>, <<ESC, 91, 49, 48, 48, 48, 83>>}

ScrollInit ==
    /\ ParserIdle
    /\ sessions = EmptyMap
    /\ last = NoInput
    /\ now = 0
    /\ steps = 0
    /\ ChannelsSettled
    /\ \E width \in 1..ScrollCols, height \in 1..ScrollRows :
         tasks = <<Task_new("t", width, height, "ansi", FALSE)>>

ScrollFeed ==
    /\ steps < MaxScrollSteps
    /\ \E data \in ScrollTokens : DoProcessData(1, data)

SpecScroll == ScrollInit /\ [][ScrollFeed]_vars

\* the call scrolls the screen of t up exactly once
ScrollsOnce(t, data) ==
    \/ data = <<ESC, 91, 83>>
    \/ data = <<10>> /\ t.cursor_y = t.height - 1

\* C23: the scrollback never holds more than max_scrollback = 1000 rows.  A
\* call that scrolls up once puts the former row 0 at the back of the
\* scrollback, drops the oldest row when that made 1001, moves the other
\* rows of the screen up and appends one row of blanks in the current
\* foreground and background, so that the screen keeps its height rows.
C23_ScrollbackBounded ==
    [][LET t == tasks[1].terminal
           u == tasks'[1].terminal
       IN /\ u.max_scrollback = 1000
          /\ Len(u.scrollback) <= 1000
          /\ Len(u.screen) = u.height
          /\ last'.op = "process_data" /\ t.parser_state = "normal"
               /\ ScrollsOnce(t, last'.data) =>
               /\ u.scrollback = IF Len(t.scrollback) < 1000
                                 THEN Append(t.scrollback, t.screen[1])
                                 ELSE Append(Tail(t.scrollback), t.screen[1])
               /\ \A y \in 1..(t.height - 1) : u.screen[y] = t.screen[y + 1]
               /\ u.screen[t.height] =
                    [x \in 1..t.width |->
                       [char |-> 32, fg |-> t.fg, bg |-> t.bg, attrs |-> {},
                        dirty |-> TRUE]]]_vars

\* a full scrollback of blue rows only, after a single scroll: the rows the
\* screen began with, which were pushed first, have been dropped
C23_Witness ==
    /\ last.op = "process_data"
    /\ last.data = <<ESC, 91, 83>>
    /\ Len(tasks[1].terminal.scrollback) = 1000
    /\ \A i \in 1..1000 : tasks[1].terminal.scrollback[i][1].bg = 4

(***************************************************************************)
(* One session on a small display whose windows reach its edges, moved and *)
(* resized by the game and by the mouse                                    *)
(***************************************************************************)
MaxEdgeSteps == 3
EdgeCols == 8
EdgeRows == 4

\* a: as high as the display, or 3x2 (smaller than the default minimum
\* size 10x5); c: an invert window, the cursor; moves of a and c to row 0
\* and of a to column 5
EdgeCommands ==
    {CreateWindow("a", 2, 0, 6, EdgeRows, "single"), CreateWindow("a", 1, 0, 3, 2, "single"),
     [CreateWindow("c", 0, 0, 1, 1, "none") EXCEPT !.invert = TRUE],
     [UpdateWindow("a") EXCEPT !.y = Some(0)], [UpdateWindow("c") EXCEPT !.y = Some(0)],
     [UpdateWindow("a") EXCEPT !.x = Some(5)]}

EdgeInit ==
    /\ ParserIdle
    /\ sessions = [s \in {S1} |->
                     process_command(ClientSession_new(s, 80, 24),
                                     InitCmd(EdgeCols, EdgeRows))]
    /\ last = NoInput
    /\ now = 0
    /\ steps = 0
    /\ ConnectionsSettled

EdgeCommand ==
    /\ steps < MaxEdgeSteps
    /\ \E c \in EdgeCommands : DoCommand(TargetString(S1), c)

EdgeCreateTerminal ==
    /\ steps < MaxEdgeSteps
    /\ DoCreateTerminal(TargetString(S1), CreateTerminal("t", 1, 0, 5, 3, "single"))

EdgeResizeTerminal ==
    /\ steps < MaxEdgeSteps
    /\ DoResizeTerminal(TargetString(S1), ResizeTerminal("t", 1, 0, 4, 3, "single"))

\* the title bar of the high a and of t, the resize handle of the small a
\* and of t, the background
EdgeMouse ==
    /\ steps < MaxEdgeSteps
    /\ \E p \in {<<5, 1>>, <<3, 2>>, <<5, 3>>, <<6, 2>>, <<0, 0>>},
          e \in {"press", "drag", "move", "release"} :
         DoMouse(S1, p[1], p[2], "left", e, 600)

EdgeNext == EdgeCommand \/ EdgeCreateTerminal \/ EdgeResizeTerminal \/ EdgeMouse

SpecEdge == EdgeInit /\ [][EdgeNext]_vars

\* C24: in every state of a session, every window that is not an invert
\* window has y >= 1.
C24_MenuBarRowFree ==
    \A s \in DOMAIN sessions : \A id \in DOMAIN sessions[s].windows.windows :
        LET w == sessions[s].windows.windows[id] IN ~w.invert => w.y >= 1

\* C25: after a Drag or Move event during a mouse resize, the resized window
\* has width >= min_width, height >= min_height, x + width <= cols and
\* y + height <= rows.
C25_ResizeWithinBounds ==
    [][LET sess == sessions[S1]
           resize == sess.interaction.resizing
       IN last'.op = "mouse" /\ last'.event_type \in {"drag", "move"} /\ resize # None
             /\ resize[1].window_id \in DOMAIN sessions'[S1].windows.windows =>
          LET w == sessions'[S1].windows.windows[resize[1].window_id] IN
          /\ w.width >= w.min_width
          /\ w.height >= w.min_height
          /\ w.x + w.width <= sessions'[S1].windows.cols
          /\ w.y + w.height <= sessions'[S1].windows.rows]_vars

(***************************************************************************)
(* One session with a terminal: its connection task reads what the         *)
(* upstream host sends while the game resizes the terminal                 *)
(***************************************************************************)
MaxUpSteps == 4
UpCols == 12
UpRows == 6

\* DO NAWS, whole and in two reads; DO TERMINAL-TYPE; TERMINAL-TYPE SEND;
\* the letter A; a cursor position request
UpChunks ==
    {<<IAC, DO, 31>>, <<IAC, DO>>, <<31>>, <<IAC, DO, 24>>, <<IAC, SB, 24, 1, IAC, SE>>,
     <<65>>, <<ESC, 91, 54, 110>>}

UpResizes ==
    {ResizeTerminal("t", 1, 1, 7, 4, "single"), ResizeTerminal("t", 1, 1, 4, 3, "none")}

UpInit ==
    /\ ParserIdle
    /\ sessions = [s \in {S1} |->
                     process_command(ClientSession_new(s, 80, 24), InitCmd(UpCols, UpRows))]
    /\ last = NoInput
    /\ now = 0
    /\ steps = 0
    /\ ConnectionsSettled

UpCreate ==
    /\ tasks = <<>>
    /\ DoCreateTerminal(TargetString(S1), CreateTerminal("t", 1, 1, 8, 4, "single"))

UpRead ==
    /\ steps < MaxUpSteps
    /\ \E data \in UpChunks : DoTaskRead(1, data)

UpResize ==
    /\ steps < MaxUpSteps
    /\ \E c \in UpResizes : DoResizeTerminal(TargetString(S1), c)

UpNext == UpCreate \/ TaskConnects \/ UpRead \/ TaskProcess \/ UpResize \/ TaskReadEnds

SpecUpstream == UpInit /\ [][UpNext]_vars

\* C26: a read that completes IAC DO NAWS makes the task send IAC WILL NAWS
\* and then the NAWS subnegotiation carrying the width and height the
\* emulator has at that moment.
C26_NawsCurrentSize ==
    [][tasks # <<>> /\ steps' = steps + 1 /\ last'.op = "read"
         /\ \/ last'.data = <<IAC, DO, 31>> /\ tasks[1].telnet_state = "normal"
            \/ last'.data = <<31>> /\ tasks[1].telnet_state = "option"
                  /\ tasks[1].telnet_cmd = DO
       => tasks'[1].telnet_rx =
             tasks[1].telnet_rx \o
                <<<<IAC, WILL, 31>>,
                  naws(tasks[1].terminal.width, tasks[1].terminal.height)>>]_vars

\* C27: a ResizeTerminal for a terminal whose task is connected upstream
\* leaves the emulator as wide and high as the content of the resized
\* window and has queued the NAWS subnegotiation with that size on the
\* input channel.
C27_ResizeReachesEmulator ==
    [][tasks # <<>> /\ steps' = steps + 1 /\ last'.op = "resize_terminal"
         /\ "t" \in DOMAIN sessions[S1].terminals /\ tasks[1].state = "running"
       => LET w == sessions'[S1].windows.windows["t"] IN
          /\ tasks'[1].terminal.width = w.content.cols
          /\ tasks'[1].terminal.height = w.content.rows
          /\ tasks'[1].input_rx =
                Append(tasks[1].input_rx, naws(w.content.cols, w.content.rows))]_vars

(***************************************************************************)
(* Two sessions whose game shares and unshares displays while the clients  *)
(* disconnect                                                              *)
(***************************************************************************)
MaxShareSteps == 3
ShareCols == 4
ShareRows == 3

\* the two sessions of the table and an id that names no session
ShareIds == {S1, S2, "session_10_0_0_9_5009"}

ShareInit ==
    /\ ParserIdle
    /\ sessions = [s \in {S1, S2} |->
                     process_command(ClientSession_new(s, 80, 24),
                                     InitCmd(ShareCols, ShareRows))]
    /\ last = NoInput
    /\ now = 0
    /\ steps = 0
    /\ ConnectionsSettled

ShareCommand ==
    /\ steps < MaxShareSteps
    /\ \E source \in ShareIds, target \in ShareIds : DoShareDisplay(source, target)

UnshareCommand ==
    /\ steps < MaxShareSteps
    /\ \E source \in ShareIds, target \in ShareIds : DoUnshareDisplay(source, target)

ShareNext ==
    \/ ShareCommand \/ UnshareCommand \/ LeaveLoop \/ SendClientDisconnect
    \/ RemoveSession \/ RemoveShutdownChannel

SpecShare == ShareInit /\ [][ShareNext]_vars

\* no id occurs twice in a list
NoDuplicates(v) == \A i, j \in 1..Len(v) : v[i] = v[j] => i = j

\* every id of a list names a session of the table
NamesSessions(v) == \A i \in 1..Len(v) : v[i] \in DOMAIN sessions

SharesWithoutDuplicates ==
    \A s \in DOMAIN sessions :
        NoDuplicates(sessions[s].display_shares_to)
            /\ NoDuplicates(sessions[s].display_shares_from)

SharesMutual ==
    \A s, t \in DOMAIN sessions :
        Vec_contains(sessions[s].display_shares_to, t)
            <=> Vec_contains(sessions[t].display_shares_from, s)

SharesNameSessions ==
    \A s \in DOMAIN sessions :
        NamesSessions(sessions[s].display_shares_to)
            /\ NamesSessions(sessions[s].display_shares_from)

\* C28: in every reachable state, T is in S.display_shares_to exactly when
\* S is in T.display_shares_from, every id in either list names a session
\* of the table, and no list holds an id twice, whatever ShareDisplay and
\* UnshareDisplay commands (also naming unknown sessions) and client
\* disconnects have happened.
C28_SharesConsistent == SharesMutual /\ SharesNameSessions /\ SharesWithoutDuplicates

(***************************************************************************)
(* One session whose game opens a terminal window one cell wide or high    *)
(***************************************************************************)
MaxTinySteps == 4
TinyCols == 6
TinyRows == 4

\* bordered and unbordered windows with a width or height of 0 or 1
TinyCreates ==
    {CreateTerminal("t", 1, 1, 1, 1, "single"),
     CreateTerminal("t", 1, 1, 3, 1, "single"),
     CreateTerminal("t", 1, 1, 1, 1, "none"),
     CreateTerminal("t", 1, 1, 3, 0, "none")}

TinyResizes ==
    {ResizeTerminal("t", 1, 1, 1, 1, "single"), ResizeTerminal("t", 1, 1, 1, 3, "none")}

\* a letter, a line feed, erase to the end of the line
TinyChunks == {<<65>>, <<10>>, <<ESC, 91, 75>>}

TinyInit ==
    /\ ParserIdle
    /\ sessions = [s \in {S1} |->
                     process_command(ClientSession_new(s, 80, 24),
                                     InitCmd(TinyCols, TinyRows))]
    /\ last = NoInput
    /\ now = 0
    /\ steps = 0
    /\ ConnectionsSettled

TinyCreate ==
    /\ tasks = <<>>
    /\ \E c \in TinyCreates : DoCreateTerminal(TargetString(S1), c)

TinyRead ==
    /\ steps < MaxTinySteps
    /\ \E data \in TinyChunks : DoTaskRead(1, data)

TinyResize ==
    /\ steps < MaxTinySteps
    /\ \E c \in TinyResizes : DoResizeTerminal(TargetString(S1), c)

\* a press on the window's top left cell or next to it
TinyMouse ==
    /\ steps < MaxTinySteps
    /\ \E x \in {1, 2} : DoMouse(S1, x, 1, "left", "press", 100)

TinyNext ==
    \/ TinyCreate \/ TaskConnects \/ TinyRead \/ TaskProcess \/ TinyResize \/ TinyMouse
    \/ TaskReadEnds

SpecTiny == TinyInit /\ [][TinyNext]_vars

\* no terminal task has ended in a panic
NoTaskPanicked == \A n \in 1..Len(tasks) : tasks[n].state # "panicked"

\* the last resize_terminal command did not panic
NoHandlerPanicked == last.op = "resize_terminal" => ~last.panicked

\* C29: no game command or mouse event makes the server fail; terminals
\* and windows created with a width or height of 0 or 1, bordered or not,
\* are composited, hit-tested, resized and fed upstream data without any
\* error or abort.
C29_NoFailure == NoTaskPanicked /\ NoHandlerPanicked

(***************************************************************************)
(* One session whose game sets z indices and restacks two windows          *)
(***************************************************************************)
MaxZSteps == 4
ZCols == 6
ZRows == 4

\* z indices a game can send in update_window: small ones and the ends of
\* the range of i32
ZValues == {-1, 0, 2, I32Max, I32Min}

\* two overlapping windows, a created first
ZInit ==
    /\ ParserIdle
    /\ sessions = [s \in {S1} |->
          process_command(
            process_command(
              process_command(ClientSession_new(s, 80, 24), InitCmd(ZCols, ZRows)),
              CreateWindow("a", 0, 1, 3, 2, "single")),
            CreateWindow("b", 1, 1, 3, 3, "single"))]
    /\ last = NoInput
    /\ now = 0
    /\ steps = 0
    /\ ConnectionsSettled

ZUpdate ==
    /\ steps < MaxZSteps
    /\ \E id \in {"a", "b"}, z \in ZValues :
          DoCommand(TargetString(S1), [UpdateWindow(id) EXCEPT !.z_index = Some(z)])

ZHide ==
    /\ steps < MaxZSteps
    /\ DoCommand(TargetString(S1), [UpdateWindow("a") EXCEPT !.visible = Some(FALSE)])

ZFront ==
    /\ steps < MaxZSteps
    /\ \E id \in {"a", "b", "c"} : DoCommand(TargetString(S1), BringToFront(id))

ZBack ==
    /\ steps < MaxZSteps
    /\ \E id \in {"a", "b", "c"} : DoCommand(TargetString(S1), SendToBack(id))

ZNext == ZUpdate \/ ZHide \/ ZFront \/ ZBack

SpecZ == ZInit /\ [][ZNext]_vars

\* a restacking command for a window of the table was just handled
Restacked(type) ==
    /\ steps' = steps + 1
    /\ last'.op = "command"
    /\ last'.cmd.type = type
    /\ last'.cmd.id \in DOMAIN sessions[S1].windows.windows

\* the handler did not panic
Completed == "panicked" \notin DOMAIN last'

FrontStep ==
    Restacked("bring_to_front") =>
        LET wm == sessions'[S1].windows
            id == last'.cmd.id
            w == wm.windows[id]
        IN /\ Completed
           /\ \A o \in DOMAIN wm.windows \ {id} : w.z_index > wm.windows[o].z_index
           /\ wm.z_order[Len(wm.z_order)] = id
           /\ w.visible =>
                 \A x \in w.x..(w.x + w.width - 1), y \in w.y..(w.y + w.height - 1) :
                     window_at(wm, x, y) = Some(id)

BackStep ==
    Restacked("send_to_back") =>
        LET wm == sessions'[S1].windows
            id == last'.cmd.id
            w == wm.windows[id]
        IN /\ Completed
           /\ \A o \in DOMAIN wm.windows \ {id} : w.z_index < wm.windows[o].z_index
           /\ wm.z_order[1] = id

\* C30: after bring_to_front(id) on an existing window, id's z_index is
\* strictly greater than every other window's, id is the last element of
\* z_order, and window_at returns id for every point of its rectangle when
\* it is visible; after send_to_back(id), id's z_index is strictly smaller
\* than every other window's and id is first in z_order; for every z_index
\* that update_window can assign.
C30_Restack == [][FrontStep /\ BackStep]_vars

(***************************************************************************)
(* Gestures that the game interleaves with commands (SpecMouse)            *)
(***************************************************************************)
\* the number of events of one type in the reply of the last mouse event
EventCount(type) ==
    Cardinality({k \in 1..Len(last'.events) : last'.events[k].type = type})

GestureStep ==
    (steps' = steps + 1 /\ last'.op = "mouse" /\ last'.event_type = "release") =>
        LET i == sessions[S1].interaction IN
        /\ i.dragging # None => EventCount("window_moved") = 1 /\ ~last'.forward
        /\ i.resizing # None => EventCount("window_resized") = 1 /\ ~last'.forward

\* C31: the Release that ends a drag started by a title-bar press produces
\* exactly one WindowMoved, the Release that ends a resize started by a
\* resize-handle press exactly one WindowResized, and that Release is not
\* forwarded to the game, also when the game removed the window between
\* the press and the release.
C31_GestureReported == [][GestureStep]_vars

(***************************************************************************)
(* One session, flushed once, whose game draws and flushes again           *)
(***************************************************************************)
MaxFlushSteps == 4
FlushCols == 4
FlushRows == 3

\* the session after init and a first Flush
FlushInit ==
    /\ ParserIdle
    /\ sessions = [s \in {S1} |->
          process_command(
            process_command(ClientSession_new(s, 80, 24), InitCmd(FlushCols, FlushRows)),
            Flush)]
    /\ last = NoInput
    /\ now = 0
    /\ steps = 0
    /\ ConnectionsSettled

\* 88 is 'X'
FlushCommands ==
    {CreateWindow("w", 1, 1, 2, 1, "none"),
     [type |-> "print", window |-> "w", x |-> 0, y |-> 0, text |-> <<88>>,
      fg |-> 2, bg |-> 0],
     [type |-> "print_direct", x |-> 3, y |-> 2, text |-> <<88>>, fg |-> 7, bg |-> 0],
     RemoveWindow("w")}

FlushCommand ==
    /\ steps < MaxFlushSteps
    /\ \E c \in FlushCommands : DoCommand(TargetString(S1), c)

FlushAgain ==
    /\ steps < MaxFlushSteps
    /\ \E force_full \in BOOLEAN : DoFlush(TargetString(S1), force_full)

FlushNext == FlushCommand \/ FlushAgain

SpecFlush == FlushInit /\ [][FlushNext]_vars

\* the cells whose composited value differs from the display the previous
\* Flush has left
ChangedCells(sess) ==
    LET shown == sess.windows.display
        next == composite(sess.windows).display
    IN {i \in DOMAIN next.cells : CellValue(next.cells[i]) # CellValue(shown.cells[i])}

\* the output that draws the cells of a set and no other
OutputFor(sess, cells) ==
    LET g == composite(sess.windows).display
        marked == [g EXCEPT !.cells = [i \in DOMAIN g.cells |->
                                         [g.cells[i] EXCEPT !.dirty = i \in cells]]]
        plan == dirty_plan(marked)
    IN run_steps(sess.renderer, plan, 1, Len(plan)).out

\* C32: a Flush with force_full = false emits characters only for the
\* display cells whose composited value changed since the previous Flush,
\* whenever those are at most half of the grid; a Flush right after a Flush
\* emits no cell output.
C32_FlushEmitsChanges ==
    [][(/\ steps' = steps + 1
        /\ last'.op = "flush"
        /\ ~last'.cmd.force_full
        /\ 2 * Cardinality(ChangedCells(sessions[S1])) <= FlushCols * FlushRows)
       => flush_output(sessions[S1], FALSE)
              = OutputFor(sessions[S1], ChangedCells(sessions[S1]))]_vars

(***************************************************************************)
(* One session whose game sends create_window for a window that exists     *)
(***************************************************************************)
MaxRecreateSteps == 3
RecreateCols == 8
RecreateRows == 6

\* 88 is 'X'
RecreatePrint(x) ==
    [type |-> "print", window |-> "a", x |-> x, y |-> 0, text |-> <<88>>,
     fg |-> 2, bg |-> 0]

\* window a, 4x3 with a border, with an X in its content
RecreateInit ==
    /\ ParserIdle
    /\ sessions = [s \in {S1} |->
          process_command(
            process_command(
              process_command(ClientSession_new(s, 80, 24),
                              InitCmd(RecreateCols, RecreateRows)),
              CreateWindow("a", 1, 1, 4, 3, "single")),
            RecreatePrint(0))]
    /\ last = NoInput
    /\ now = 0
    /\ steps = 0
    /\ ConnectionsSettled

RecreateCommands ==
    {CreateWindow("a", x, y, d[1], d[2], b) :
        x \in {1, 2}, y \in {0, 2}, d \in {<<4, 3>>, <<5, 3>>, <<3, 3>>},
        b \in {"single", "none"}}
    \cup {CreateWindow("b", 0, 1, 2, 2, "single"), RecreatePrint(1),
          [UpdateWindow("a") EXCEPT !.z_index = Some(5)]}

RecreateCommand ==
    /\ steps < MaxRecreateSteps
    /\ \E c \in RecreateCommands : DoCommand(TargetString(S1), c)

SpecRecreate == RecreateInit /\ [][RecreateCommand]_vars

\* the cells that lie in both grids have the same value in both
SameContent(old, new) ==
    \A x \in 0..(Min(old.cols, new.cols) - 1), y \in 0..(Min(old.rows, new.rows) - 1) :
        CellValue(Grid_get(new, x, y)) = CellValue(Grid_get(old, x, y))

RecreateStep ==
    (/\ steps' = steps + 1
     /\ last'.op = "command"
     /\ last'.cmd.type = "create_window"
     /\ last'.cmd.id \in DOMAIN sessions[S1].windows.windows)
    => LET c == last'.cmd
           old == sessions[S1].windows
           new == sessions'[S1].windows
       IN /\ new.windows[c.id].x = c.x
          /\ new.windows[c.id].y = Max(c.y, 1)
          /\ new.windows[c.id].width = c.width
          /\ new.windows[c.id].height = c.height
          /\ SameContent(old.windows[c.id].content, new.windows[c.id].content)
          /\ new.z_order = old.z_order
          /\ new.windows[c.id].z_index = old.windows[c.id].z_index

\* C33: create_window on an id that already exists updates the window's
\* position and size and leaves every cell of its content grid unchanged,
\* for every new position and size; z_order and the window's z_index are
\* unchanged as well.
C33_RecreateKeepsContent == [][RecreateStep]_vars

\* no drag and no resize is in progress
GestureIdle(i) == i.dragging = None /\ i.resizing = None

AtMostOneGesture == \A s \in DOMAIN sessions :
    sessions[s].interaction.dragging = None \/ sessions[s].interaction.resizing = None

IdleAfterRelease ==
    (last.op = "mouse" /\ last.event_type = "release") =>
        GestureIdle(sessions[last.sid].interaction)

\* C34: in every reachable interaction state at most one of dragging and
\* resizing is set, also after presses that no release follows; after any
\* Release both are unset.
C34_OneGesture == AtMostOneGesture /\ IdleAfterRelease

\* a Release that directly follows the Press of its click
ClickStep ==
    (/\ steps' = steps + 1
     /\ last.op = "mouse" /\ last.event_type = "press"
     /\ last'.op = "mouse" /\ last'.event_type = "release")
    => (last'.forward => last.forward)

\* C35: the raw mouse events forwarded to the game are press/release
\* consistent: a Release is forwarded only if the Press that started the
\* click was forwarded; a click whose Press was consumed by window chrome
\* (close button, title-bar double-click, drag or resize start) never has
\* its Release forwarded.
C35_ClickConsistent == [][ClickStep]_vars

(***************************************************************************)
(* A byte stream that a client's socket delivers in successive reads       *)
(***************************************************************************)
MaxStream == 4
\* IAC, a three-byte command, the subnegotiation brackets, an option and a
\* letter
SplitBytes == {IAC, WILL, SB, SE, 1, 65}

SplitInit ==
    /\ ParserIdle
    /\ sessions = [s \in {S1} |->
                     process_command(ClientSession_new(s, 80, 24), InitCmd(1, 1))]
    /\ \E stream \in SeqsUpTo(SplitBytes, MaxStream) \ {<<>>} :
          last = [op |-> "stream", stream |-> stream, filtered |-> <<>>]
    /\ now = 0
    /\ steps = 0
    /\ ConnectionsSettled

\* handle_client_connection, Ok(n) of the read: the socket delivers the next
\* n bytes of the stream, they are filtered and, unless nothing is left,
\* parsed
SplitRead ==
    /\ \E n \in 1..(Len(last.stream) - Len(received)) :
         LET data == SubSeq(last.stream, Len(received) + 1, Len(received) + n)
             filtered == filter_telnet_commands(data)
             r == parse(buffer, filtered)
         IN /\ received' = received \o data
            /\ last' = [op |-> "read", stream |-> last.stream,
                        filtered |-> last.filtered \o filtered]
            /\ buffer' = IF filtered = <<>> THEN buffer ELSE r.buffer
            /\ events' = IF filtered = <<>> THEN events ELSE events \o r.events
    /\ calls' = calls + 1
    /\ UNCHANGED <<sessions, now, steps, serverVars>>

SpecSplit == SplitInit /\ [][SplitRead]_vars

\* C36: for every byte stream and every split of it into successive reads,
\* the concatenation of the filtered reads equals the filter applied to
\* the whole stream, so no byte of an IAC option triple or subnegotiation
\* split across two reads reaches the input parser as user data.
C36_SplitIndependent ==
    received = last.stream => last.filtered = filter_telnet_commands(last.stream)

(***************************************************************************)
(* Two sessions, one of which may stop reading its socket, and a game that *)
(* flushes them.  The handlers hold the write lock of the session table    *)
(* from sessions.write().await to the end of the command or event; a game  *)
(* handler whose output_tx.send(..).await finds the channel full waits     *)
(* there, at pc "sending", with the lock held.                             *)
(***************************************************************************)
MaxStallSteps == 4
StallCols == 2
StallRows == 1

\* the capacity of a session's output channel; mpsc::channel(100) in
\* handle_client_connection
OutputCapacity == 2

Input(s, event) == [type |-> "input", session |-> s, event |-> event]

\* the address whose session has the id s
AddressOf(s) == CHOOSE a \in Addresses : session_id(a) = s

\* no handler is inside sessions.write()
SessionsFree == \A g \in Games : games[g].pc # "sending"

\* mpsc::Sender::send would return at once: there is room, or the receiver
\* is gone
SendReady(c) == Len(c.output_rx) < OutputCapacity \/ c.writer # "running"

StallInit ==
    /\ ParserIdle
    /\ sessions = [s \in {S1, S2} |->
                     process_command(ClientSession_new(s, 80, 24),
                                     InitCmd(StallCols, StallRows))]
    /\ last = NoInput
    /\ now = 0
    /\ steps = 0
    /\ shutdown_channels = DOMAIN sessions
    /\ event_tx = <<>>
    /\ clients = [a \in Addresses |->
                    [pc |-> "loop", signalled |-> FALSE, writer |-> "running",
                     output_rx |-> <<>>, socket |-> <<>>]]
    /\ games = [g \in Games |->
                  [pc |-> "serving", rx |-> 1, written |-> {}, session |-> None,
                   output |-> <<>>]]
    /\ tasks = <<>>

\* handle_game_connection, a Flush for session s: the table is locked, the
\* session composited and rendered, and the output sent on the session's
\* channel with the lock held
StallFlush ==
    /\ steps < MaxStallSteps
    /\ SessionsFree
    /\ \E g \in Games, s \in DOMAIN sessions :
         LET c == clients[AddressOf(s)]
             output == flush_output(sessions[s], FALSE)
         IN /\ games[g].pc = "serving"
            /\ sessions' = [sessions EXCEPT ![s] = process_command(@, Flush)]
            /\ IF SendReady(c)
               THEN /\ clients' = [clients EXCEPT ![AddressOf(s)] = send_output(c, output)]
                    /\ UNCHANGED games
               ELSE /\ games' = [games EXCEPT ![g].pc = "sending",
                                              ![g].session = Some(s),
                                              ![g].output = output]
                    /\ UNCHANGED clients
            /\ last' = [op |-> "flush", target |-> TargetString(s), cmd |-> Flush]
    /\ steps' = steps + 1
    /\ UNCHANGED <<now, parserVars, shutdown_channels, event_tx, tasks>>

\* the send of a waiting game handler completes, the lock is released
StallSendCompletes ==
    /\ \E g \in Games :
         /\ games[g].pc = "sending"
         /\ LET a == AddressOf(games[g].session[1]) IN
            /\ SendReady(clients[a])
            /\ clients' = [clients EXCEPT ![a] = send_output(@, games[g].output)]
         /\ games' = [games EXCEPT ![g].pc = "serving", ![g].session = None,
                                   ![g].output = <<>>]
         /\ last' = [op |-> "sent", target |-> TargetString(games[g].session[1])]
    /\ UNCHANGED <<now, steps, parserVars, sessions, shutdown_channels, event_tx, tasks>>

\* handle_client_connection, a key event of the client at a: the table is
\* locked to look for a focused terminal, then the event is sent to the
\* games (65 is 'A')
StallInput(a) ==
    /\ steps < MaxStallSteps
    /\ clients[a].pc = "loop"
    /\ SessionsFree
    /\ event_tx' = Append(event_tx, Input(session_id(a), CharEvent(65)))
    /\ last' = [op |-> "input", sid |-> session_id(a)]
    /\ steps' = steps + 1
    /\ UNCHANGED <<now, parserVars, sessions, shutdown_channels, clients, games, tasks>>

StallInputs == \E a \in Addresses : StallInput(a)

StallNext ==
    \/ StallFlush \/ StallSendCompletes \/ StallInputs \/ WriterWrites \/ GameReceive

SpecStall == StallInit /\ [][StallNext]_vars

\* the output channel of the session of a is full
ChannelFull(a) ==
    clients[a].writer = "running" /\ Len(clients[a].output_rx) = OutputCapacity

\* C37: a client that stops reading its socket cannot stall other
\* sessions: while one session's output channel is full, input events of
\* the other clients and game commands for the other sessions can still be
\* processed.
C37_OthersNotStalled ==
    \A a \in Addresses :
        ChannelFull(a) =>
            \A b \in Addresses \ {a} :
                (clients[b].pc = "loop" /\ steps < MaxStallSteps) => ENABLED StallInput(b)

(***************************************************************************)
(* One session whose game opens terminals and removes windows              *)
(***************************************************************************)
MaxOrphanSteps == 3
OrphanCols == 10
OrphanRows == 5

OrphanInit ==
    /\ ParserIdle
    /\ sessions = [s \in {S1} |->
                     process_command(ClientSession_new(s, 80, 24),
                                     InitCmd(OrphanCols, OrphanRows))]
    /\ last = NoInput
    /\ now = 0
    /\ steps = 0
    /\ ConnectionsSettled

OrphanCreateTerminal ==
    /\ steps < MaxOrphanSteps
    /\ \E id \in {"t", "u"} :
          DoCreateTerminal(TargetString(S1), CreateTerminal(id, 1, 1, 4, 3, "single"))

OrphanCloseTerminal ==
    /\ steps < MaxOrphanSteps
    /\ \E id \in {"t", "u"} : DoCloseTerminal(TargetString(S1), id)

OrphanCommand ==
    /\ steps < MaxOrphanSteps
    /\ \E c \in {RemoveWindow("t"), Reset, CreateWindow("t", 2, 2, 3, 2, "none"),
                  CreateWindow("w", 0, 1, 2, 2, "single")} :
          DoCommand(TargetString(S1), c)

OrphanNext ==
    \/ OrphanCreateTerminal \/ OrphanCloseTerminal \/ OrphanCommand \/ TaskConnects

SpecOrphan == OrphanInit /\ [][OrphanNext]_vars

\* C39: in every reachable session state, every id of the session's
\* terminals map is also the id of a window of that session, whatever
\* create_terminal, close_terminal, remove_window, reset and create_window
\* commands came before.
C39_TerminalHasWindow ==
    \A s \in DOMAIN sessions :
        DOMAIN sessions[s].terminals \subseteq DOMAIN sessions[s].windows.windows

\* a game is written a client_connect it had not been written before
ConnectStep ==
    \A g \in Games, a \in Addresses :
        (/\ games[g].pc = "serving"
         /\ games'[g].pc = "serving"
         /\ ClientConnect(session_id(a)) \in games'[g].written \ games[g].written
         /\ clients[a].pc \notin {"disconnect", "remove_session", "remove_channel",
                                   "ended", "returned"})
        => session_id(a) \in DOMAIN sessions'

\* C40: when a game receives client_connect for session s, s is already in
\* the session table, so that a command for s sent in response is applied
\* and not dropped as an unknown session, under every interleaving of the
\* client handler and the game's tasks (SpecConn).
C40_ConnectedSessionExists == [][ConnectStep]_vars

(***************************************************************************)
(* The locks of the server: the session table, the shutdown-channel table  *)
(* and the lock of a terminal emulator.  Acquiring and releasing are       *)
(* separate steps; the locks a task holds follow from its position.        *)
(***************************************************************************)
MaxLockSteps == 2
LockCols == 4
LockRows == 2

\* the scope of the guard of handle_client_connection's first block left
\* out: it lives while the session is announced and inserted
client_holds_unscoped(pc) ==
    IF pc \in {"announce", "insert_session"} THEN {"channels"}
    ELSE CASE pc \in {"tick", "tick_synced", "echo"} -> {"sessions"}
           [] pc = "tick_read" -> {"sessions", "terminal_read"}
           [] pc \in {"tick_write", "echo_write"} -> {"sessions", "terminal"}
           [] pc = "console_channels" -> {"channels"}
           [] OTHER -> {}

\* the locks the handler of a client holds at a position of
\* handle_client_connection; the guards taken in a block of their own are
\* dropped at its end
client_holds(pc) ==
    CASE pc \in {"tick", "tick_synced", "echo"} -> {"sessions"}
      [] pc = "tick_read" -> {"sessions", "terminal_read"}
      [] pc \in {"tick_write", "echo_write"} -> {"sessions", "terminal"}
      [] pc = "console_channels" -> {"channels"}
      [] OTHER -> {}

\* the lock the handler of a client acquires next at a position
client_wants(pc) ==
    CASE pc \in {"insert_channel", "console_dropped", "remove_channel"} -> {"channels"}
      [] pc \in {"insert_session", "init", "remove_session", "routing"} -> {"sessions"}
      [] pc = "tick" -> {"terminal_read"}
      [] pc \in {"tick_synced", "echo"} -> {"terminal"}
      [] OTHER -> {}

\* the same for handle_game_connection, whose guard of the session table
\* lives for the whole command
game_holds(pc) ==
    CASE pc \in {"shutdown", "sending"} -> {"sessions"}
      [] pc = "shutdown_channels" -> {"sessions", "channels"}
      [] OTHER -> {}

game_wants(pc) == IF pc = "shutdown" THEN {"channels"} ELSE {}

\* the reader of a terminal task holds the emulator's write lock while it
\* processes data, and waits for it once a read left bytes for the emulator
task_holds(k) == IF k.locked THEN {"terminal"} ELSE {}
task_wants(k) ==
    IF k.state = "running" /\ ~k.locked /\ k.filtered # <<>> THEN {"terminal"} ELSE {}

\* the tasks that take locks: the client handlers, the game handlers and
\* the reader of the terminal task
Reader == "reader"
LockTasks == Addresses \cup Games \cup {Reader}

Holds(p) ==
    IF p \in Addresses THEN client_holds(clients[p].pc)
    ELSE IF p \in Games THEN game_holds(games[p].pc)
    ELSE IF tasks # <<>> THEN task_holds(tasks[1]) ELSE {}

Wants(p) ==
    IF p \in Addresses THEN client_wants(clients[p].pc)
    ELSE IF p \in Games THEN game_wants(games[p].pc)
    ELSE IF tasks # <<>> THEN task_wants(tasks[1]) ELSE {}

\* tokio::sync::RwLock: a write guard excludes every other guard, read
\* guards exclude write guards
Conflict(wanted, held) ==
    CASE wanted = "terminal_read" -> held = "terminal"
      [] wanted = "terminal" -> held \in {"terminal", "terminal_read"}
      [] OTHER -> held = wanted

WaitsFor(p, q) == \E w \in Wants(p), h \in Holds(q) : Conflict(w, h)

Free(wanted) == \A q \in LockTasks : \A h \in Holds(q) : ~Conflict(wanted, h)

\* a set of tasks each of which waits for a lock a task of the set holds
LockCycle ==
    \E W \in SUBSET LockTasks :
        /\ W # {}
        /\ \A p \in W : \E q \in W : WaitsFor(p, q)

\* TerminalHandle::local_echo, false unless TerminalConfig set it
local_echo(handle) == "local_echo" \in DOMAIN handle /\ handle.local_echo

\* the console commands close and reset, and the prompt of the console
CloseWord == <<99, 108, 111, 115, 101>>
ResetWord == <<114, 101, 115, 101, 116>>
ConsolePrompt ==
    <<9553, 32, 65, 80, 85, 32, 67, 111, 110, 115, 111, 108, 101, 32, 40, 67, 116,
      114, 108, 43, 92, 32>> \o CloseWord \o <<41, 32, 62, 32>>

Repeat(ch, n) == [i \in 1..n |-> ch]

\* ClientSession::draw_console: the box of 60 columns drawn at the top of
\* the screen, with the last 25 characters of the input
draw_console(sess) ==
    LET width == 60
        x == SatSub(sess.windows.cols, width) \div 2
        input == sess.console_input
        input_display == IF Len(input) > 25
                         THEN SubSeq(input, Len(input) - 24, Len(input)) ELSE input
        padding == width - 33 - Min(Len(input_display), 25)
    IN CSI \o <<49, 59>> \o Digits(x + 1) \o <<72>>
       \o CSI \o <<48, 59, 51, 48, 59, 52, 55, 109>>
       \o <<9556>> \o Repeat(9552, width - 2) \o <<9559>>
       \o CSI \o <<50, 59>> \o Digits(x + 1) \o <<72>>
       \o ConsolePrompt \o input_display \o <<9608>> \o Repeat(32, padding) \o <<9553>>
       \o CSI \o <<51, 59>> \o Digits(x + 1) \o <<72>>
       \o <<9562>> \o Repeat(9552, width - 2) \o <<9565>>
       \o CSI \o <<48, 109>>

\* str::trim and str::to_lowercase on the console input
RECURSIVE trim_start(_)
trim_start(s) == IF s # <<>> /\ Head(s) \in {9, 10, 13, 32} THEN trim_start(Tail(s)) ELSE s
RECURSIVE trim_end(_)
trim_end(s) ==
    IF s # <<>> /\ s[Len(s)] \in {9, 10, 13, 32} THEN trim_end(SubSeq(s, 1, Len(s) - 1)) ELSE s
to_lowercase(s) == [i \in 1..Len(s) |-> IF s[i] \in 65..90 THEN s[i] + 32 ELSE s[i]]

\* ClientSession::process_console_command: (should_reset, should_close)
process_console_command(sess) ==
    LET cmd == to_lowercase(trim_end(trim_start(sess.console_input)))
    IN [sess |-> [sess EXCEPT !.console_input = <<>>],
        should_reset |-> cmd = ResetWord, should_close |-> cmd = CloseWord]

RefreshRequested(s) == [type |-> "refresh_requested", session |-> s]

\* the terminal of the first session, without border
LocksTerminal == CreateTerminal("t", 0, 1, 3, 2, "none")

\* The first client is in its read loop and its session has a terminal
\* with local echo (CreateTerminal, then TerminalConfig), the console
\* closed or open with close typed, and its terminal task is connected; the
\* second client has not connected; a game is in its read loop.
LocksInit ==
    /\ ParserIdle
    /\ \E console \in BOOLEAN :
         sessions = [s \in {S1} |->
            LET sess == create_terminal(
                            process_command(ClientSession_new(s, 80, 24),
                                            InitCmd(LockCols, LockRows)),
                            LocksTerminal, 1)
            IN [sess EXCEPT !.terminals["t"] = [task |-> 1, local_echo |-> TRUE],
                            !.console_open = console,
                            !.console_input = IF console THEN CloseWord ELSE <<>>]]
    /\ last = NoInput
    /\ now = 0
    /\ steps = 0
    /\ shutdown_channels = {S1}
    /\ event_tx = <<>>
    /\ clients = [a \in Addresses |->
                    [pc |-> IF a = Addr1 THEN "loop" ELSE "none", signalled |-> FALSE,
                     writer |-> IF a = Addr1 THEN "running" ELSE "none",
                     output_rx |-> <<>>, socket |-> <<>>, event |-> None]]
    /\ games = [g \in Games |->
                  [pc |-> "serving", rx |-> 1, written |-> {}, session |-> None]]
    /\ \E overflow_checks \in BOOLEAN :
         tasks = <<[Task_new("t", 3, 2, "ansi", overflow_checks) EXCEPT !.state = "running"]>>

\* handle_game_connection, Shutdown for a session: the table is locked and
\* the session sends the shutdown sequence
ShutdownStart ==
    /\ steps < MaxLockSteps
    /\ Free("sessions")
    /\ \E g \in Games, s \in {S1, S2} :
         /\ games[g].pc = "serving"
         /\ games' = [games EXCEPT ![g].pc = "shutdown", ![g].session = Some(s)]
         /\ IF s \in DOMAIN sessions
            THEN /\ sessions' = [sessions EXCEPT ![s] = process_command(@, Shutdown)]
                 /\ clients' = [clients EXCEPT ![AddressOf(s)] = send_shutdown(@)]
            ELSE UNCHANGED <<sessions, clients>>
         /\ last' = [op |-> "shutdown", target |-> TargetString(s)]
    /\ steps' = steps + 1
    /\ UNCHANGED <<now, parserVars, shutdown_channels, event_tx, tasks>>

\* the same handler, holding the table: shutdown_channels.write().await
ShutdownChannels ==
    /\ Free("channels")
    /\ \E g \in Games :
         /\ games[g].pc = "shutdown"
         /\ games' = [games EXCEPT ![g].pc = "shutdown_channels"]
    /\ UNCHANGED <<parserVars, sessionVars, shutdown_channels, event_tx, clients, tasks>>

\* oneshot::Sender::send on the sender taken out of the table
signal(cs, chans, s) ==
    [a \in Addresses |->
        IF session_id(a) = s /\ s \in chans /\ cs[a].pc \notin {"none", "insert_channel",
                                                                "returned", "ended"}
        THEN [cs[a] EXCEPT !.signalled = TRUE] ELSE cs[a]]

\* the same handler: the sender is removed and fired, both guards dropped
ShutdownEnd ==
    /\ \E g \in Games :
         /\ games[g].pc = "shutdown_channels"
         /\ shutdown_channels' = shutdown_channels \ {games[g].session[1]}
         /\ clients' = signal(clients, shutdown_channels, games[g].session[1])
         /\ games' = [games EXCEPT ![g].pc = "serving", ![g].session = None]
    /\ UNCHANGED <<parserVars, sessionVars, event_tx, tasks>>

\* handle_client_connection, the steps that take one lock for one block;
\* a connecting client is followed until its session is in the table,
\* where it writes the telnet negotiation to its socket
LocksConnect ==
    \/ ClientAccepted
    \/ Free("channels") /\ InsertShutdownChannel
    \/ SendClientConnect
    \/ Free("sessions") /\ InsertSession

\* the select loop is left when the shutdown receiver resolves
LocksLeave ==
    \E a \in Addresses :
        /\ clients[a].pc = "loop"
        /\ clients[a].signalled
        /\ Goto(a, "disconnect")
        /\ UNCHANGED <<parserVars, sessionVars, shutdown_channels, event_tx, games, tasks>>

LocksDisconnect ==
    \/ LocksLeave
    \/ SendClientDisconnect
    \/ Free("sessions") /\ RemoveSession
    \/ Free("channels") /\ RemoveShutdownChannel

\* the id of the terminal of a session with one terminal
TheTerminal(sess) == CHOOSE id \in DOMAIN sess.terminals : TRUE

\* sync_terminals_to_windows, first loop: the cells of the emulator's
\* screen are set in the window, as far as both reach
RECURSIVE copy_cells(_, _, _)
copy_cells(win, terminal, i) ==
    LET w == Min(terminal.width, win.content.cols)
        h == Min(terminal.height, win.content.rows)
    IN IF i >= w * h THEN win
       ELSE LET cell == terminal.screen[(i \div w) + 1][(i % w) + 1]
            IN copy_cells(Window_set(win, i % w, i \div w, cell.char, cell.fg, cell.bg),
                          terminal, i + 1)

\* handle_client_connection, the flush tick: the table is locked; a
\* session without terminals is left alone
TickStart(a) ==
    /\ steps < MaxLockSteps
    /\ clients[a].pc = "loop"
    /\ Free("sessions")
    /\ Goto(a, IF session_id(a) \in DOMAIN sessions
                  /\ DOMAIN sessions[session_id(a)].terminals # {}
               THEN "tick" ELSE "loop")
    /\ last' = [op |-> "tick", session |-> session_id(a)]
    /\ steps' = steps + 1
    /\ UNCHANGED <<now, parserVars, sessions, shutdown_channels, event_tx, games, tasks>>

\* sync_terminals_to_windows: handle.terminal.read().await
TickRead(a) ==
    /\ clients[a].pc = "tick"
    /\ Free("terminal_read")
    /\ Goto(a, "tick_read")
    /\ UNCHANGED <<parserVars, sessionVars, shutdown_channels, event_tx, games, tasks>>

\* sync_terminals_to_windows: the screen is copied, the read guard dropped
TickCopy(a) ==
    /\ clients[a].pc = "tick_read"
    /\ LET s == session_id(a)
           id == TheTerminal(sessions[s])
           terminal == tasks[sessions[s].terminals[id].task].terminal
       IN sessions' = [sessions EXCEPT ![s].windows.windows =
              IF id \in DOMAIN @ THEN [@ EXCEPT ![id] = copy_cells(@, terminal, 0)] ELSE @]
    /\ Goto(a, "tick_synced")
    /\ UNCHANGED <<parserVars, last, now, steps, shutdown_channels, event_tx, games, tasks>>

\* sync_terminals_to_windows, second loop: handle.terminal.write().await
TickWrite(a) ==
    /\ clients[a].pc = "tick_synced"
    /\ Free("terminal")
    /\ Goto(a, "tick_write")
    /\ UNCHANGED <<parserVars, sessionVars, shutdown_channels, event_tx, games, tasks>>

\* the dirty flag of the emulator is cleared and the write guard dropped;
\* the display is composited, rendered and sent, the table released
TickEnd(a) ==
    /\ clients[a].pc = "tick_write"
    /\ LET s == session_id(a)
           n == sessions[s].terminals[TheTerminal(sessions[s])].task
       IN /\ tasks' = [tasks EXCEPT ![n].terminal.dirty = FALSE]
          /\ sessions' = [sessions EXCEPT ![s] = flush_display(@, FALSE)]
          /\ clients' = [clients EXCEPT ![a] =
                [send_output(@, flush_output(sessions[s], FALSE)) EXCEPT !.pc = "loop"]]
    /\ UNCHANGED <<parserVars, last, now, steps, shutdown_channels, event_tx, games>>

\* input_event_to_bytes for a character below 128 and for Enter
input_event_to_bytes(event, line_ending) ==
    IF event.type = "char" THEN <<event.char>>
    ELSE CASE line_ending = "crlf" -> <<13, 10>>
           [] line_ending = "lf" -> <<10>>
           [] OTHER -> <<13>>

\* handle_client_connection: the bytes fed to the emulator for local echo
echo_bytes(event) == IF event.type = "char" THEN <<event.char>> ELSE <<13, 10>>

LockEvents == {CharEvent(65), KeyEvent("enter")}

\* handle_client_connection, a key event that is not the console toggle:
\* the table is locked and the console, when open, takes the event; the
\* close command drops the guard before the shutdown channels are locked
ConsoleInput(a) ==
    /\ steps < MaxLockSteps
    /\ clients[a].pc = "loop"
    /\ Free("sessions")
    /\ \E event \in LockEvents :
         LET s == session_id(a) IN
         /\ IF s \in DOMAIN sessions /\ sessions[s].console_open
            THEN IF event.type = "char"
                 THEN LET sess == [sessions[s] EXCEPT !.console_input =
                                                          Append(@, event.char)]
                      IN /\ sessions' = [sessions EXCEPT ![s] = sess]
                         /\ clients' = [clients EXCEPT ![a] =
                                           send_output(@, draw_console(sess))]
                         /\ UNCHANGED event_tx
                 ELSE LET r == process_console_command(sessions[s]) IN
                      /\ sessions' = [sessions EXCEPT ![s] =
                                         [r.sess EXCEPT !.console_open = FALSE]]
                      /\ event_tx' = event_tx
                            \o (IF r.should_reset THEN <<RefreshRequested(s)>> ELSE <<>>)
                            \o (IF r.should_close THEN <<>> ELSE <<RefreshRequested(s)>>)
                      /\ Goto(a, IF r.should_close THEN "console_dropped" ELSE "loop")
            ELSE /\ clients' = [clients EXCEPT ![a].pc = "routing",
                                               ![a].event = Some(event)]
                 /\ UNCHANGED <<sessions, event_tx>>
         /\ last' = [op |-> "key", session |-> s, event |-> event]
    /\ steps' = steps + 1
    /\ UNCHANGED <<now, parserVars, shutdown_channels, games, tasks>>

\* console close: shutdown_channels.write().await
ConsoleChannels(a) ==
    /\ clients[a].pc = "console_dropped"
    /\ Free("channels")
    /\ Goto(a, "console_channels")
    /\ UNCHANGED <<parserVars, sessionVars, shutdown_channels, event_tx, games, tasks>>

\* console close: the sender is removed and fired, the guard dropped
ConsoleEnd(a) ==
    /\ clients[a].pc = "console_channels"
    /\ shutdown_channels' = shutdown_channels \ {session_id(a)}
    /\ clients' = [signal(clients, shutdown_channels, session_id(a)) EXCEPT ![a].pc = "loop"]
    /\ UNCHANGED <<parserVars, sessionVars, event_tx, games, tasks>>

\* the same event with the console closed: the table is locked again; the
\* event goes to the focused terminal, which with local echo needs the
\* emulator's lock first, or else to the games once the table is released
Route(a) ==
    /\ clients[a].pc = "routing"
    /\ Free("sessions")
    /\ LET s == session_id(a)
           event == clients[a].event[1]
           to_terminal == /\ s \in DOMAIN sessions
                          /\ sessions[s].focused_window # None
                          /\ sessions[s].focused_window[1] \in DOMAIN sessions[s].terminals
       IN IF to_terminal
          THEN LET handle == sessions[s].terminals[sessions[s].focused_window[1]] IN
               IF local_echo(handle)
               THEN /\ Goto(a, "echo")
                    /\ UNCHANGED <<tasks, event_tx>>
               ELSE /\ tasks' = [tasks EXCEPT ![handle.task] =
                                    try_send(@, input_event_to_bytes(event, "cr"))]
                    /\ clients' = [clients EXCEPT ![a].pc = "loop", ![a].event = None]
                    /\ UNCHANGED event_tx
          ELSE /\ event_tx' = Append(event_tx, Input(s, event))
               /\ clients' = [clients EXCEPT ![a].pc = "loop", ![a].event = None]
               /\ UNCHANGED tasks
    /\ UNCHANGED <<parserVars, sessionVars, shutdown_channels, games>>

\* local echo: handle.terminal.write().await with the table held
EchoWrite(a) ==
    /\ clients[a].pc = "echo"
    /\ Free("terminal")
    /\ Goto(a, "echo_write")
    /\ UNCHANGED <<parserVars, sessionVars, shutdown_channels, event_tx, games, tasks>>

\* local echo: process_data, the guard dropped, the bytes sent to the
\* terminal task, the table released; a panic of the emulator ends the
\* handler
EchoEnd(a) ==
    /\ clients[a].pc = "echo_write"
    /\ LET s == session_id(a)
           event == clients[a].event[1]
           n == sessions[s].terminals[sessions[s].focused_window[1]].task
           t1 == process_data(tasks[n].terminal, echo_bytes(event))
       IN IF t1.panicked
          THEN /\ tasks' = [tasks EXCEPT ![n].terminal = Unwound(t1)]
               /\ clients' = [clients EXCEPT ![a].pc = "returned", ![a].event = None]
          ELSE /\ tasks' = [tasks EXCEPT ![n] =
                               try_send([@ EXCEPT !.terminal = t1],
                                        input_event_to_bytes(event, "cr"))]
               /\ clients' = [clients EXCEPT ![a].pc = "loop", ![a].event = None]
    /\ UNCHANGED <<parserVars, sessionVars, shutdown_channels, event_tx, games>>

LockChunks == {<<66>>}

\* create_terminal_handle, the reader: a read returns data and the telnet
\* parser leaves the bytes for the emulator
LocksTaskRead ==
    /\ steps < MaxLockSteps
    /\ tasks[1].state = "running"
    /\ ~tasks[1].locked
    /\ tasks[1].filtered = <<>>
    /\ \E data \in LockChunks :
         /\ tasks' = [tasks EXCEPT ![1] = reader_bytes(@, data, 1)]
         /\ last' = [op |-> "read", task |-> 1, data |-> data]
    /\ steps' = steps + 1
    /\ UNCHANGED <<now, sessions, parserVars, shutdown_channels, event_tx, clients, games>>

\* the reader: terminal_clone.write().await
TaskLocks ==
    /\ task_wants(tasks[1]) # {}
    /\ Free("terminal")
    /\ tasks' = [tasks EXCEPT ![1].locked = TRUE]
    /\ UNCHANGED <<parserVars, sessionVars, shutdown_channels, event_tx, clients, games>>

LocksClient ==
    \E a \in Addresses :
        \/ TickStart(a) \/ TickRead(a) \/ TickCopy(a) \/ TickWrite(a) \/ TickEnd(a)
        \/ ConsoleInput(a) \/ ConsoleChannels(a) \/ ConsoleEnd(a)
        \/ Route(a) \/ EchoWrite(a) \/ EchoEnd(a)

LocksNext ==
    \/ ShutdownStart \/ ShutdownChannels \/ ShutdownEnd
    \/ LocksConnect \/ LocksDisconnect \/ LocksClient
    \/ LocksTaskRead \/ TaskLocks \/ TaskProcess

SpecLocks == LocksInit /\ [][LocksNext]_vars

\* C38: the session table, the shutdown-channel table and the terminal
\* lock are never acquired in conflicting orders: in no reachable state is
\* there a set of game handlers, client handlers and terminal readers
\* each of which waits for a lock held by a task of the set, under every
\* interleaving of Shutdown commands, console close, flush ticks, local
\* echo and upstream terminal data.
C38_NoLockCycle == ~LockCycle

\* a game handler holding the session table waits for the shutdown
\* channels, which a client handler closing its console holds, while the
\* other client handler waits for the session table
C38_Witness ==
    /\ \E g \in Games : games[g].pc = "shutdown" /\ WaitsFor(g, Addr1)
    /\ clients[Addr1].pc = "console_channels"
    /\ \E g \in Games : WaitsFor(Addr2, g)


(***************************************************************************)
(* One session whose game opens and closes terminals                       *)
(***************************************************************************)
MaxTermSteps == 3
TermCols == 12
TermRows == 6

TermInit ==
    /\ ParserIdle
    /\ sessions = [s \in {S1} |->
                     process_command(ClientSession_new(s, 80, 24),
                                     InitCmd(TermCols, TermRows))]
    /\ last = NoInput
    /\ now = 0
    /\ steps = 0
    /\ ConnectionsSettled

TermCreates ==
    {CreateTerminal("t", 1, 1, 8, 4, "single"), CreateTerminal("t", 0, 0, 6, 3, "none"),
     CreateTerminal("u", 3, 2, 1, 5, "double")}

TermCreate ==
    /\ steps < MaxTermSteps
    /\ \E c \in TermCreates : DoCreateTerminal(TargetString(S1), c)

TermClose ==
    /\ steps < MaxTermSteps
    /\ \E id \in {"t", "u"} : DoCloseTerminal(TargetString(S1), id)

TermResize ==
    /\ steps < MaxTermSteps
    /\ DoResizeTerminal(TargetString(S1), ResizeTerminal("t", 2, 1, 7, 4, "single"))

TermNext ==
    \/ TermCreate \/ TermClose \/ TermResize \/ TaskConnects \/ TaskReadEnds
    \/ LeaveLoop \/ SendClientDisconnect \/ RemoveSession \/ RemoveShutdownChannel

SpecTerm == TermInit /\ [][TermNext]_vars

\* the task n can be aborted through a handle stored in a session of the table
Held(n) ==
    \E s \in DOMAIN sessions : \E id \in DOMAIN sessions[s].terminals :
        sessions[s].terminals[id].task = n

\* C10: every terminal connection task that is connecting or reading its
\* upstream socket has its handle stored in a session of the table.
C10_RunningTaskHeld ==
    \A n \in 1..Len(tasks) : tasks[n].state \in {"connecting", "running"} => Held(n)

(***************************************************************************)
(* The parser fed chunk by chunk                                           *)
(***************************************************************************)
MaxCalls == 3

\* The chunks a read of the client socket hands to the parser: pieces of
\* keys, of UTF-8 characters and of mouse reports.
Chunks ==
    { <<97>>, <<13>>, <<ESC>>, <<91>>, <<ESC, 91>>, <<65>>, <<ESC, 79>>, <<80>>,
      <<50, 49, 126>>, <<195>>, <<169>>, <<195, 169>>, <<226, 130>>, <<172>>,
      <<ESC, 91, 60>>, <<48, 59, 50>>, <<59, 51, 77>>, <<59, 51, 109>>,
      <<ESC, 91, 77, 32>>, <<33, 34>>, <<ESC, 1>> }

ParserInit == ParserIdle /\ SessionsIdle /\ ConnectionsSettled

\* one call of InputParser::parse
Parse ==
    /\ calls < MaxCalls
    /\ \E data \in Chunks :
         LET r == parse(buffer, data) IN
         /\ buffer' = r.buffer
         /\ events' = events \o r.events
         /\ received' = received \o data
    /\ calls' = calls + 1
    /\ UNCHANGED <<sessionVars, serverVars>>

SpecParser == ParserInit /\ [][Parse]_vars

\* C1: parsing a byte sequence chunk by chunk on one parser yields, in all,
\* the events of one parse call on the whole sequence (prefix-stability).
C1_PrefixStable == events = parse(<<>>, received).events

=============================================================================
